---- MODULE Spec2Model ----
(***************************************************************************)
(* Model of the criteria-to-predicate query engine of                      *)
(* app/domain/repository/base.py (BaseRepository): dotted path resolution, *)
(* operator application with type coercion, criteria parsing (structured,  *)
(* positional, legacy string), query assembly and pagination over a sync   *)
(* and an async session.                                                   *)
(*                                                                         *)
(* Python strings are sequences of one-character strings, so that split,   *)
(* strip, lower, startswith and int()/float() are computed, not assumed.   *)
(* Untyped request values are tagged records (t = "str", "int", "float",   *)
(* "bool", "null", "list", "map").  Floats and ints carry their value in   *)
(* tenths when compared by the database (Tenths).                          *)
(***************************************************************************)
EXTENDS Integers, Sequences, FiniteSets, TLC

VARIABLES
    call,      \* the last engine call made on its own: operation, inputs, outcome
    table,     \* rows of the queried entity's table, in storage order
    req,       \* the inputs handed to the repositories' filter/count/paginate call
    inv,       \* per repository: its invocation (position, statements issued, outcome)
    changed,   \* whether the table was written since the inputs were handed over
    dbm        \* the multi-database manager: its databases, primary name, flag

vars == <<call, table, req, inv, changed, dbm>>

(***************************************************************************)
(* Python strings                                                          *)
(***************************************************************************)
W_id      == <<"i", "d">>
W_status  == <<"s", "t", "a", "t", "u", "s">>
W_amount  == <<"a", "m", "o", "u", "n", "t">>
W_active  == <<"a", "c", "t", "i", "v", "e">>
W_owner   == <<"o", "w", "n", "e", "r">>
W_email   == <<"e", "m", "a", "i", "l">>
W_profile == <<"p", "r", "o", "f", "i", "l", "e">>
W_country == <<"c", "o", "u", "n", "t", "r", "y">>
W_bogus   == <<"b", "o", "g", "u", "s">>
W_paid    == <<"p", "a", "i", "d">>
W_unpaid  == <<"u", "n", "p", "a", "i", "d">>
W_PAID    == <<"P", "A", "I", "D">>
W_true    == <<"t", "r", "u", "e">>
W_True    == <<"T", "r", "u", "e">>
W_yes     == <<"y", "e", "s">>
W_no      == <<"n", "o">>
W_and     == <<"a", "n", "d">>
W_or      == <<"o", "r">>
W_asc     == <<"a", "s", "c">>
W_desc    == <<"d", "e", "s", "c">>
W_up      == <<"u", "p">>
W_ax      == <<"a", "@", "x">>
W_bx      == <<"b", "@", "x">>
W_ID      == <<"I", "D">>
W_SG      == <<"S", "G">>
W_1       == <<"1">>
W_0       == <<"0">>
W_50      == <<"5", "0">>
W_100     == <<"1", "0", "0">>
W_100p0   == <<"1", "0", "0", ".", "0">>
W_empty   == <<>>
Dot       == <<".">>
Colon     == <<":">>
Comma     == <<",">>
Space     == <<" ">>
LParen    == <<"(">>
RParen    == <<")">>

Digits == [c \in {"0", "1", "2", "3", "4", "5", "6", "7", "8", "9"} |->
             CASE c = "0" -> 0 [] c = "1" -> 1 [] c = "2" -> 2 [] c = "3" -> 3
               [] c = "4" -> 4 [] c = "5" -> 5 [] c = "6" -> 6 [] c = "7" -> 7
               [] c = "8" -> 8 [] c = "9" -> 9]

Upper == [A |-> "a", B |-> "b", C |-> "c", D |-> "d", E |-> "e", F |-> "f",
          G |-> "g", H |-> "h", I |-> "i", J |-> "j", K |-> "k", L |-> "l",
          M |-> "m", N |-> "n", O |-> "o", P |-> "p", Q |-> "q", R |-> "r",
          S |-> "s", T |-> "t", U |-> "u", V |-> "v", W |-> "w", X |-> "x",
          Y |-> "y", Z |-> "z"]

\* str.lower()
lower(s) == [i \in 1..Len(s) |-> IF s[i] \in DOMAIN Upper THEN Upper[s[i]] ELSE s[i]]

\* index of the first occurrence of character c in s at or after i, 0 if none
RECURSIVE find(_, _, _)
find(s, c, i) ==
    IF i > Len(s) THEN 0
    ELSE IF s[i] = c THEN i
    ELSE find(s, c, i + 1)

\* c in s
contains_char(s, c) == find(s, c, 1) # 0

\* s.split(c): every piece between occurrences of c, empty pieces kept
RECURSIVE split(_, _)
split(s, c) ==
    LET i == find(s, c, 1) IN
    IF i = 0 THEN <<s>>
    ELSE <<SubSeq(s, 1, i - 1)>> \o split(SubSeq(s, i + 1, Len(s)), c)

\* s.split(c, 1): cut at the first occurrence of c only
split1(s, c) ==
    LET i == find(s, c, 1) IN
    IF i = 0 THEN <<s>>
    ELSE <<SubSeq(s, 1, i - 1), SubSeq(s, i + 1, Len(s))>>

\* s.strip()
RECURSIVE lstrip(_)
lstrip(s) == IF s # <<>> /\ Head(s) = " " THEN lstrip(Tail(s)) ELSE s
RECURSIVE rstrip(_)
rstrip(s) == IF s # <<>> /\ s[Len(s)] = " " THEN rstrip(SubSeq(s, 1, Len(s) - 1)) ELSE s
strip(s) == rstrip(lstrip(s))

startswith(s, p) == Len(s) >= Len(p) /\ SubSeq(s, 1, Len(p)) = p
endswith(s, p) == Len(s) >= Len(p) /\ SubSeq(s, Len(s) - Len(p) + 1, Len(s)) = p

\* needle in haystack (substring test)
is_substring(needle, hay) ==
    \E i \in 0..(Len(hay) - Len(needle)) : SubSeq(hay, i + 1, i + Len(needle)) = needle

all_digits(s) == s # <<>> /\ \A i \in 1..Len(s) : s[i] \in DOMAIN Digits

RECURSIVE digits_value(_)
digits_value(s) ==
    IF s = <<>> THEN 0 ELSE 10 * digits_value(SubSeq(s, 1, Len(s) - 1)) + Digits[s[Len(s)]]

unsigned(s) == IF s # <<>> /\ Head(s) \in {"+", "-"} THEN Tail(s) ELSE s
signum(s) == IF s # <<>> /\ Head(s) = "-" THEN -1 ELSE 1

\* int(s) accepts surrounding blanks, one sign and decimal digits
int_parses(s) == all_digits(unsigned(strip(s)))
int_of(s) == signum(strip(s)) * digits_value(unsigned(strip(s)))

\* float(s) accepts what int(s) accepts and a fraction; the model keeps one
\* fractional digit (its value in tenths), which covers the values it draws
float_parses(s) ==
    LET u == unsigned(strip(s)) p == split1(u, ".") IN
    \/ all_digits(u)
    \/ /\ Len(p) = 2
       /\ all_digits(p[1])
       /\ Len(p[2]) <= 1
       /\ (p[2] = <<>> \/ all_digits(p[2]))
float_tenths_of(s) ==
    LET u == unsigned(strip(s)) p == split1(u, ".") IN
    signum(strip(s)) *
      (10 * digits_value(p[1]) + (IF Len(p) = 2 THEN digits_value(p[2]) ELSE 0))

(***************************************************************************)
(* Untyped request values                                                  *)
(***************************************************************************)
JStr(s)   == [t |-> "str", s |-> s]
JInt(n)   == [t |-> "int", n |-> n]
JFloat(n) == [t |-> "float", n |-> n]        \* n is the value in tenths
\* float('inf'), which json.loads gives for 1e999 and Infinity (n is not read)
JInf      == [t |-> "float", n |-> 0, inf |-> TRUE]
is_inf(v) == v.t = "float" /\ "inf" \in DOMAIN v
JBool(b)  == [t |-> "bool", b |-> b]
JNull     == [t |-> "null"]
JList(l)  == [t |-> "list", l |-> l]
JMap(m)   == [t |-> "map", m |-> m]

\* Python truth value of a request value
truthy(v) ==
    CASE v.t = "str"   -> v.s # <<>>
      [] v.t = "int"   -> v.n # 0
      [] v.t = "float" -> is_inf(v) \/ v.n # 0
      [] v.t = "bool"  -> v.b
      [] v.t = "null"  -> FALSE
      [] v.t = "list"  -> v.l # <<>>
      [] v.t = "map"   -> DOMAIN v.m # {}

(***************************************************************************)
(* Outcomes: a returned value or a raised exception                        *)
(***************************************************************************)
Ok(v) == [ok |-> TRUE, v |-> v]
\* an HTTPException(400) of the given kind
Raise(kind, detail) == [ok |-> FALSE, exc |-> "HTTPException", kind |-> kind, detail |-> detail]
\* any other Python exception
Throw(exc) == [ok |-> FALSE, exc |-> exc, kind |-> exc, detail |-> <<>>]

(***************************************************************************)
(* Entity metadata                                                         *)
(***************************************************************************)
Spelling == [id |-> W_id, status |-> W_status, amount |-> W_amount, active |-> W_active,
             owner |-> W_owner, email |-> W_email, profile |-> W_profile,
             country |-> W_country, owner_id |-> W_owner \o <<"_">> \o W_id,
             profile_id |-> W_profile \o <<"_">> \o W_id]

Schema ==
    [Order   |-> [columns |-> [id |-> "int", status |-> "str", amount |-> "float",
                               active |-> "bool", owner_id |-> "int"],
                  relationships |-> [owner |-> "Owner"]],
     Owner   |-> [columns |-> [id |-> "int", email |-> "str", profile_id |-> "int"],
                  relationships |-> [profile |-> "Profile"]],
     Profile |-> [columns |-> [id |-> "int", country |-> "str"],
                  relationships |-> <<>>]]

Entities == DOMAIN Schema
Model == "Order"

\* part in mapping (mapping keyed by names)
has_key(mapping, part) == \E k \in DOMAIN mapping : Spelling[k] = part
key_of(mapping, part) == CHOOSE k \in DOMAIN mapping : Spelling[k] = part

NoColumn == [entity |-> "None", name |-> "None", type |-> "None"]
Column(entity, name) == [entity |-> entity, name |-> name, type |-> Schema[entity].columns[name]]

\* lines 105-108: the error naming the segment and current_model.__name__
unresolvable_on_root(part, current_model) ==
    Raise("UnresolvableField", [part |-> part, entity |-> Model])
unresolvable(part, current_model) ==
    Raise("UnresolvableField", [part |-> part, entity |-> current_model])

\* the loop of get_column_by_path from segment idx on
RECURSIVE walk_path(_, _, _, _, _)
walk_path(path, parts, idx, current_model, column) ==
    IF idx > Len(parts) THEN
        IF column = NoColumn THEN Raise("ColumnNotFound", [path |-> path])
        ELSE Ok(column)
    ELSE
        LET part == parts[idx]
            mapper == Schema[current_model]
        IN  IF has_key(mapper.columns, part) THEN
                LET found == Column(current_model, key_of(mapper.columns, part)) IN
                IF idx = Len(parts) THEN Ok(found)
                ELSE walk_path(path, parts, idx + 1, current_model, found)
            ELSE IF has_key(mapper.relationships, part) THEN
                walk_path(path, parts, idx + 1,
                          mapper.relationships[key_of(mapper.relationships, part)], column)
            ELSE unresolvable(part, current_model)

\* BaseRepository.get_column_by_path; path is the untyped field value
get_column_by_path(path) ==
    IF path.t # "str" THEN Throw("AttributeError")
    ELSE walk_path(path.s, split(path.s, "."), 1, Model, NoColumn)

(***************************************************************************)
(* Operator evaluator                                                      *)
(***************************************************************************)
\* isinstance(value, python_type); bool is a subclass of int
py_isinstance(value, python_type) ==
    CASE python_type = "int"   -> value.t \in {"int", "bool"}
      [] python_type = "float" -> value.t = "float"
      [] python_type = "bool"  -> value.t = "bool"
      [] python_type = "str"   -> value.t = "str"

trunc_tenths(n) == IF n >= 0 THEN n \div 10 ELSE -((-n) \div 10)

\* python_type(value) of a numeric column type: the converted value, or the
\* ValueError / TypeError / OverflowError the conversion raises
py_convert(python_type, value) ==
    CASE python_type = "int" ->
           CASE value.t = "str"   -> IF int_parses(value.s) THEN Ok(JInt(int_of(value.s)))
                                     ELSE Throw("ValueError")
             [] value.t = "float" -> IF is_inf(value) THEN Throw("OverflowError")
                                     ELSE Ok(JInt(trunc_tenths(value.n)))
             [] value.t = "int"   -> Ok(value)
             [] value.t = "bool"  -> Ok(JInt(IF value.b THEN 1 ELSE 0))
             [] OTHER             -> Throw("TypeError")
      [] python_type = "float" ->
           CASE value.t = "str"   -> IF float_parses(value.s)
                                     THEN Ok(JFloat(float_tenths_of(value.s)))
                                     ELSE Throw("ValueError")
             [] value.t = "int"   -> Ok(JFloat(10 * value.n))
             [] value.t = "bool"  -> Ok(JFloat(IF value.b THEN 10 ELSE 0))
             [] value.t = "float" -> Ok(value)
             [] OTHER             -> Throw("TypeError")

TrueWords == {W_true, W_1, W_yes}

\* lines 129-132: except (ValueError, TypeError): pass
kept_on_failure(c, value) ==
    IF c.ok THEN c
    ELSE IF c.exc \in {"ValueError", "TypeError"} THEN Ok(value)
    ELSE c

\* lines 123-132 of apply_operator: the value after type coercion, or the
\* exception of the conversion that the inner try does not catch
coerce(python_type, value) ==
    IF python_type = "bool" /\ ~py_isinstance(value, "bool") THEN
        IF value.t = "str" THEN Ok(JBool(lower(value.s) \in TrueWords))
        ELSE Ok(JBool(truthy(value)))
    ELSE IF python_type # "str" /\ ~py_isinstance(value, python_type) THEN
        kept_on_failure(py_convert(python_type, value), value)
    ELSE Ok(value)

RECURSIVE nat_str(_)
nat_str(n) ==
    LET d == CHOOSE c \in DOMAIN Digits : Digits[c] = n % 10 IN
    IF n < 10 THEN <<d>> ELSE nat_str(n \div 10) \o <<d>>
int_str(n) == IF n < 0 THEN <<"-">> \o nat_str(-n) ELSE nat_str(n)
abs(n) == IF n < 0 THEN -n ELSE n

\* str() of a scalar
scalar_str(value) ==
    CASE value.t = "str"   -> value.s
      [] value.t = "int"   -> int_str(value.n)
      [] value.t = "float" ->
           IF is_inf(value) THEN <<"i", "n", "f">>
           ELSE (IF value.n < 0 THEN <<"-">> ELSE <<>>)
                \o nat_str(abs(value.n) \div 10) \o Dot \o nat_str(abs(value.n) % 10)
      [] value.t = "bool"  -> IF value.b THEN W_True ELSE <<"F", "a", "l", "s", "e">>
      [] value.t = "null"  -> <<"N", "o", "n", "e">>

\* the spelling of the mapping keys a request value may carry
KeyText == [field |-> <<"f", "i", "e", "l", "d">>, value |-> <<"v", "a", "l", "u", "e">>,
            operator |-> <<"o", "p", "e", "r", "a", "t", "o", "r">>]
            @@ ("and" :> W_and) @@ ("or" :> W_or)

\* the keys of a mapping as a sequence
RECURSIVE key_seq(_)
key_seq(K) ==
    IF K = {} THEN <<>>
    ELSE LET k == CHOOSE x \in K : TRUE IN <<k>> \o key_seq(K \ {k})

\* repr(value): strings quoted, sequences and mappings spelled out
RECURSIVE py_repr(_)
py_repr(value) ==
    LET RECURSIVE joined(_, _)
        joined(xs, i) ==
            IF i > Len(xs) THEN <<>>
            ELSE (IF i > 1 THEN <<",", " ">> ELSE <<>>) \o xs[i] \o joined(xs, i + 1)
    IN  CASE value.t = "str"  -> <<"'">> \o value.s \o <<"'">>
          [] value.t = "list" ->
               <<"[">> \o joined([i \in 1..Len(value.l) |-> py_repr(value.l[i])], 1) \o <<"]">>
          [] value.t = "map"  ->
               LET ks == key_seq(DOMAIN value.m) IN
               <<"{">> \o joined([i \in 1..Len(ks) |->
                                    <<"'">> \o KeyText[ks[i]] \o <<"'", ":", " ">>
                                    \o py_repr(value.m[ks[i]])], 1) \o <<"}">>
          [] OTHER -> scalar_str(value)

\* str(value) as the f-string "%{value}%" formats it
py_str(value) == IF value.t \in {"list", "map"} THEN py_repr(value) ELSE scalar_str(value)

Percent == <<"%">>

\* predicates (SQL boolean expressions)
Cmp(op, column, value) == [p |-> "cmp", op |-> op, col |-> column, val |-> value]
Like(column, pattern, ci, neg) ==
    [p |-> "like", col |-> column, pat |-> pattern, ci |-> ci, neg |-> neg]
In(column, values, neg) == [p |-> "in", col |-> column, vals |-> values, neg |-> neg]
IsNull(column, neg) == [p |-> "isnull", col |-> column, neg |-> neg]
BoolList(op, clauses) == [p |-> op, args |-> clauses]

OpEq  == {<<"=">>, <<"=", "=">>, <<"e", "q">>}
OpNe  == {<<"!", "=">>, <<"<", ">">>, <<"n", "e">>}
OpGt  == {<<">">>, <<"g", "t">>}
OpGte == {<<">", "=">>, <<"g", "t", "e">>}
OpLt  == {<<"<">>, <<"l", "t">>}
OpLte == {<<"<", "=">>, <<"l", "t", "e">>}
W_like      == <<"l", "i", "k", "e">>
W_ilike     == <<"i">> \o W_like
W_not_like  == <<"n", "o", "t", "_">> \o W_like
W_not_ilike == <<"n", "o", "t", "_">> \o W_ilike
W_in        == <<"i", "n">>
W_not_in    == <<"n", "o", "t", "_", "i", "n">>
W_is_null   == <<"i", "s", "_", "n", "u", "l", "l">>
W_is_not_null == <<"i", "s", "_", "n", "o", "t", "_", "n", "u", "l", "l">>

\* column > value and the like: the comparator refuses None/True/False operands
ordering(op, column, value) ==
    IF value.t \in {"null", "bool"} THEN Throw("ArgumentError")
    ELSE Ok(Cmp(op, column, value))

\* lines 134-170 of apply_operator: the body of the outer try after coercion
apply_lowered(column, op, value) ==
    CASE op \in OpEq  -> Ok(Cmp("eq", column, value))
      [] op \in OpNe  -> Ok(Cmp("ne", column, value))
      [] op \in OpGt  -> ordering("gt", column, value)
      [] op \in OpGte -> ordering("gte", column, value)
      [] op \in OpLt  -> ordering("lt", column, value)
      [] op \in OpLte -> ordering("lte", column, value)
      [] op = W_like      -> Ok(Like(column, Percent \o py_str(value) \o Percent, FALSE, FALSE))
      [] op = W_ilike     -> Ok(Like(column, Percent \o py_str(value) \o Percent, TRUE, FALSE))
      [] op = W_not_like  -> Ok(Like(column, Percent \o py_str(value) \o Percent, FALSE, TRUE))
      [] op = W_not_ilike -> Ok(Like(column, Percent \o py_str(value) \o Percent, TRUE, TRUE))
      [] op = W_in ->
           IF value.t # "list" THEN Raise("InvalidOperatorValue", [operator |-> op])
           ELSE Ok(In(column, value.l, FALSE))
      [] op = W_not_in ->
           IF value.t # "list" THEN Raise("InvalidOperatorValue", [operator |-> op])
           ELSE Ok(In(column, value.l, TRUE))
      [] op = W_is_null     -> Ok(IsNull(column, FALSE))
      [] op = W_is_not_null -> Ok(IsNull(column, TRUE))
      [] OTHER -> Raise("UnsupportedOperator", [operator |-> op])

\* lines 172-176: every exception raised inside the try, the HTTPExceptions of
\* lines 159, 163 and 170 included, is caught and raised again as one
\* "Error applying operator" HTTPException
wrap_failure(r, operator, column, value) ==
    IF r.ok THEN r
    ELSE Raise("OperatorApplicationError",
               [operator |-> operator, field |-> column, value |-> value, cause |-> r.kind])

\* lines 134-176, with the outcome of the coercion of lines 123-132
apply_coerced(column, operator, value, coerced) ==
    IF ~coerced.ok THEN wrap_failure(coerced, operator, column, value)
    ELSE IF operator.t # "str" THEN
        wrap_failure(Throw("AttributeError"), operator, column, coerced.v)
    ELSE
        wrap_failure(apply_lowered(column, lower(operator.s), coerced.v),
                     JStr(lower(operator.s)), column, coerced.v)

\* BaseRepository.apply_operator
apply_operator(column, operator, value) ==
    apply_coerced(column, operator, value, coerce(column.type, value))

(***************************************************************************)
(* Criteria parser                                                         *)
(***************************************************************************)
\* the outcomes of evaluating a sequence of calls left to right: the first
\* exception raised, or the sequence of the values
in_order(rs) ==
    IF \E i \in 1..Len(rs) : ~rs[i].ok
    THEN rs[CHOOSE i \in 1..Len(rs) : ~rs[i].ok /\ \A j \in 1..(i - 1) : rs[j].ok]
    ELSE Ok([i \in 1..Len(rs) |-> rs[i].v])

\* and_(*conditions) / or_(*conditions) over the outcomes of the children
combine_with_and(op, rs) ==
    LET cs == in_order(rs) IN
    IF cs.ok THEN Ok(BoolList("and", cs.v)) ELSE cs
combine(op, rs) ==
    LET cs == in_order(rs) IN
    IF cs.ok THEN Ok(BoolList(op, cs.v)) ELSE cs

\* lines 249-256 of parse_condition_str: the predicate of one pair
legacy_predicate_unconverted(column, field_path, raw_value) ==
    IF column.type = "str" THEN Ok(Like(column, Percent \o raw_value \o Percent, TRUE, FALSE))
    ELSE IF column.type = "bool"
         THEN Ok(Cmp("eq", column, JBool(lower(raw_value) \in TrueWords)))
    ELSE Ok(Cmp("eq", column, JStr(raw_value)))
legacy_predicate(column, field_path, raw_value) ==
    IF column.type = "str" THEN Ok(Like(column, Percent \o raw_value \o Percent, TRUE, FALSE))
    ELSE IF column.type = "bool"
         THEN Ok(Cmp("eq", column, JBool(lower(raw_value) \in TrueWords)))
    ELSE LET c == py_convert(column.type, JStr(raw_value)) IN
         IF c.ok THEN Ok(Cmp("eq", column, c.v))
         ELSE Raise("InvalidLegacyValue", [value |-> raw_value, field |-> field_path])

\* parse_condition_str of parse_legacy_criteria: one 'field:value' pair
parse_condition_str(param) ==
    IF ~contains_char(param, ":") THEN Raise("InvalidLegacyFormat", [param |-> param])
    ELSE
        LET field_path == split1(param, ":")[1]
            raw_value  == split1(param, ":")[2]
            column     == get_column_by_path(JStr(field_path))
        IN  IF ~column.ok THEN column
            ELSE legacy_predicate(column.v, field_path, raw_value)

legacy_pairs(raw) == [i \in 1..Len(split(raw, ",")) |-> parse_condition_str(strip(split(raw, ",")[i]))]

\* BaseRepository.parse_legacy_criteria
parse_legacy_criteria_unwrapped(criteria) == combine("and", legacy_pairs(criteria))
parse_legacy_criteria(criteria) ==
    IF startswith(criteria, W_and \o LParen) /\ endswith(criteria, RParen) THEN
        combine("and", legacy_pairs(SubSeq(criteria, 5, Len(criteria) - 1)))
    ELSE IF startswith(criteria, W_or \o LParen) /\ endswith(criteria, RParen) THEN
        combine("or", legacy_pairs(SubSeq(criteria, 4, Len(criteria) - 1)))
    ELSE combine("and", legacy_pairs(criteria))

\* dict.get(key, default)
get(m, key, default) == IF key \in DOMAIN m THEN m[key] ELSE default

\* lines 181-204 of parse_condition: field, operator and value of a condition
condition_parts_padded(condition) ==
    IF condition.t = "map" THEN
        IF "field" \notin DOMAIN condition.m
        THEN Raise("MissingField", <<>>)
        ELSE Ok([field    |-> condition.m["field"],
                 operator |-> get(condition.m, "operator", JStr(<<"=">>)),
                 value    |-> get(condition.m, "value", JNull)])
    ELSE IF condition.t = "list" THEN
        IF Len(condition.l) = 3 THEN
            Ok([field |-> condition.l[1], operator |-> condition.l[2],
                value |-> condition.l[3]])
        ELSE IF Len(condition.l) >= 1 THEN
            Ok([field |-> condition.l[1], operator |-> JStr(<<"=">>),
                value |-> IF Len(condition.l) >= 2 THEN condition.l[2] ELSE JNull])
        ELSE Raise("InvalidConditionShape", <<>>)
    ELSE Raise("InvalidConditionFormat", <<>>)
condition_parts(condition) ==
    IF condition.t = "map" THEN
        IF "field" \notin DOMAIN condition.m
        THEN Raise("MissingField", <<>>)
        ELSE Ok([field    |-> condition.m["field"],
                 operator |-> get(condition.m, "operator", JStr(<<"=">>)),
                 value    |-> get(condition.m, "value", JNull)])
    ELSE IF condition.t = "list" THEN
        IF Len(condition.l) = 2 THEN
            Ok([field |-> condition.l[1], operator |-> JStr(<<"=">>),
                value |-> condition.l[2]])
        ELSE IF Len(condition.l) = 3 THEN
            Ok([field |-> condition.l[1], operator |-> condition.l[2],
                value |-> condition.l[3]])
        ELSE Raise("InvalidConditionShape", <<>>)
    ELSE Raise("InvalidConditionFormat", <<>>)

\* lines 206-207 of parse_condition, reached when the condition had a shape
parse_parts(shape) ==
    IF ~shape.ok THEN shape
    ELSE LET column == get_column_by_path(shape.v.field) IN
         IF ~column.ok THEN column
         ELSE apply_operator(column.v, shape.v.operator, shape.v.value)

\* BaseRepository.parse_condition
parse_condition(condition) == parse_parts(condition_parts(condition))

\* what `for condition in x` iterates over: the elements of a sequence, the
\* characters of a string, the keys of a mapping; anything else is not iterable
iterate(x) ==
    CASE x.t = "list" -> Ok(x.l)
      [] x.t = "str"  -> Ok([i \in 1..Len(x.s) |-> JStr(<<x.s[i]>>)])
      [] x.t = "map"  -> LET ks == key_seq(DOMAIN x.m)
                         IN  Ok([i \in 1..Len(ks) |-> JStr(KeyText[ks[i]])])
      [] OTHER        -> Throw("TypeError")

\* BaseRepository.parse_criteria
RECURSIVE parse_criteria(_)
parse_criteria(criteria) ==
    IF criteria.t = "str" THEN parse_legacy_criteria(criteria.s)
    ELSE IF criteria.t = "list" THEN parse_condition(criteria)
    ELSE IF criteria.t = "map" THEN
        IF "and" \in DOMAIN criteria.m THEN
            LET it == iterate(criteria.m["and"]) IN
            IF ~it.ok THEN it
            ELSE combine("and", [i \in 1..Len(it.v) |-> parse_criteria(it.v[i])])
        ELSE IF "or" \in DOMAIN criteria.m THEN
            LET it == iterate(criteria.m["or"]) IN
            IF ~it.ok THEN it
            ELSE combine("or", [i \in 1..Len(it.v) |-> parse_criteria(it.v[i])])
        ELSE parse_condition(criteria)
    ELSE Raise("InvalidCriteriaFormat", <<>>)

(***************************************************************************)
(* Query assembler                                                         *)
(***************************************************************************)
NoValue == JNull     \* filters.get("criteria") of an absent key is None

\* select(self.model) and the generative methods the repository calls on it
Select(entity) ==
    [columns |-> "entity", entity |-> entity, options |-> <<>>, where |-> <<>>,
     order_by |-> <<>>, offset |-> -1, limit |-> -1]
with_options(q, opts) == [q EXCEPT !.options = @ \o opts]
where(q, clause) == [q EXCEPT !.where = Append(@, clause)]
order_by_first(q, terms) == [q EXCEPT !.order_by = @ \o SubSeq(terms, 1, 1)]
order_by(q, terms) == [q EXCEPT !.order_by = @ \o terms]
\* query.with_only_columns(func.count()).order_by(None)
count_of_keeping_order(q) == [q EXCEPT !.columns = "count"]
count_of(q) == [q EXCEPT !.columns = "count", !.order_by = <<>>]
\* query.offset(skip).limit(limit)
window_advancing(q, skip, limit) ==
    [q EXCEPT !.offset = skip + (IF call.op = "none" THEN 0 ELSE limit), !.limit = limit]
window(q, skip, limit) == [q EXCEPT !.offset = skip, !.limit = limit]

\* lines 331, 342, 377, 388: the count statement derived from the built query
count_query(query) == IF query.ok THEN Ok(count_of(query.v)) ELSE query

\* a build that would append to a list every repository shares (the default
\* load list): one entry for every call made so far
get_load_options_appending(load) ==
    [k \in 1..Cardinality({r \in DOMAIN inv : inv[r].pc # "idle"}) |-> "shared"]

\* BaseRepository.get_load_options: the base class names no relationship
get_load_options(load) == <<>>

\* one entry of the sort spec, given its field and its direction
order_term(field_path, direction) ==
    LET column == get_column_by_path(field_path) IN
    IF ~column.ok THEN column
    ELSE IF direction.t = "str" /\ direction.s = W_asc
         THEN Ok([col |-> column.v, dir |-> "asc"])
    ELSE IF direction.t = "str" /\ direction.s = W_desc
         THEN Ok([col |-> column.v, dir |-> "desc"])
    ELSE Raise("InvalidSortDirection", [direction |-> direction])

\* lines 285-295: one 'field:dir' parameter of a sortby string
sort_param(param) ==
    IF ~contains_char(param, ":") THEN Raise("InvalidSortFormat", [param |-> param])
    ELSE order_term(JStr(split1(param, ":")[1]), JStr(split1(param, ":")[2]))

\* lines 297-307: one item of a sortby sequence
sort_item(item) ==
    LET it == iterate(item) IN
    IF ~it.ok THEN it
    ELSE IF Len(it.v) # 2 THEN Raise("InvalidSortItem", <<>>)
    ELSE order_term(it.v[1], it.v[2])

\* lines 282-310: the ordering terms of a sortby value
order_by_items(sortby) ==
    IF sortby.t = "str" THEN
        in_order([i \in 1..Len(split(sortby.s, ",")) |-> sort_param(split(sortby.s, ",")[i])])
    ELSE IF sortby.t = "list" THEN
        in_order([i \in 1..Len(sortby.l) |-> sort_item(sortby.l[i])])
    ELSE Ok(<<>>)

\* line 280: query.where(where_clause), reached when parse_criteria returned
where_parsed(query, where_clause) ==
    IF where_clause.ok THEN Ok(where(query, where_clause.v)) ELSE where_clause

\* lines 278-280
attach_criteria(query, criteria) ==
    IF truthy(criteria) THEN where_parsed(query, parse_criteria(criteria))
    ELSE Ok(query)

\* lines 309-310: query.order_by(*order_by_items), reached when every item
\* of the sort spec gave a term and only when there is one
order_parsed(query, items) ==
    IF ~items.ok THEN items
    ELSE IF items.v # <<>> THEN Ok(order_by(query, items.v))
    ELSE Ok(query)

\* lines 282-312, reached when the criteria part (filtered) did not raise
attach_sortby(filtered, sortby) ==
    IF ~filtered.ok THEN filtered
    ELSE IF truthy(sortby) THEN order_parsed(filtered.v, order_by_items(sortby))
    ELSE filtered

\* BaseRepository.build_filter_query; criteria and sortby are the values
\* filters.get finds (NoValue for an absent criteria, '' for an absent sortby)
build_filter_query(load, criteria, sortby) ==
    LET query == with_options(Select(Model), get_load_options(load))
    IN  attach_sortby(attach_criteria(query, criteria), sortby)

(***************************************************************************)
(* The database: what executing a query returns                            *)
(***************************************************************************)
\* rows of the related tables (fixed); the queried table is the variable
OwnerRows ==
    <<[id |-> JInt(1), email |-> JStr(W_ax), profile_id |-> JInt(1)],
      [id |-> JInt(2), email |-> JStr(W_bx), profile_id |-> JInt(2)]>>
ProfileRows ==
    <<[id |-> JInt(1), country |-> JStr(W_ID)],
      [id |-> JInt(2), country |-> JStr(W_SG)]>>

Rows(entity, orders) ==
    CASE entity = "Order"   -> orders
      [] entity = "Owner"   -> OwnerRows
      [] entity = "Profile" -> ProfileRows

is_number(v) == v.t \in {"int", "float"}
Tenths(v) == IF v.t = "int" THEN 10 * v.n ELSE v.n

\* cell <op> value as the database compares them; operands of different
\* kinds are never equal and never ordered
compare(op, cell, value) ==
    IF is_number(cell) /\ is_number(value) THEN
        CASE op = "eq"  -> Tenths(cell) = Tenths(value)
          [] op = "ne"  -> Tenths(cell) # Tenths(value)
          [] op = "gt"  -> Tenths(cell) > Tenths(value)
          [] op = "gte" -> Tenths(cell) >= Tenths(value)
          [] op = "lt"  -> Tenths(cell) < Tenths(value)
          [] op = "lte" -> Tenths(cell) <= Tenths(value)
    ELSE IF cell.t = "str" /\ value.t = "str" THEN
        CASE op = "eq" -> cell.s = value.s
          [] op = "ne" -> cell.s # value.s
          [] OTHER     -> FALSE
    ELSE IF cell.t = "bool" /\ value.t = "bool" THEN
        CASE op = "eq" -> cell.b = value.b
          [] op = "ne" -> cell.b # value.b
          [] OTHER     -> FALSE
    ELSE IF value.t = "null" THEN op = "ne"       \* IS NULL / IS NOT NULL, cells are not null
    ELSE op = "ne"

\* s LIKE pattern, with the wildcards % and _
RECURSIVE like_match(_, _)
like_match(s, pat) ==
    IF pat = <<>> THEN s = <<>>
    ELSE IF Head(pat) = "%" THEN
        \E k \in 0..Len(s) : like_match(SubSeq(s, k + 1, Len(s)), Tail(pat))
    ELSE IF s = <<>> THEN FALSE
    ELSE IF Head(pat) = "_" \/ Head(pat) = Head(s) THEN like_match(Tail(s), Tail(pat))
    ELSE FALSE

\* the truth of a predicate on a joined row (entity -> row)
RECURSIVE holds(_, _)
holds(pred, jr) ==
    CASE pred.p = "cmp"    -> compare(pred.op, jr[pred.col.entity][pred.col.name], pred.val)
      [] pred.p = "like"   ->
           LET c == jr[pred.col.entity][pred.col.name]
               m == /\ c.t = "str"
                    /\ IF pred.ci THEN like_match(lower(c.s), lower(pred.pat))
                       ELSE like_match(c.s, pred.pat)
           IN  IF pred.neg THEN ~m ELSE m
      [] pred.p = "in"     ->
           LET m == \E i \in 1..Len(pred.vals) :
                        compare("eq", jr[pred.col.entity][pred.col.name], pred.vals[i])
           IN  IF pred.neg THEN ~m ELSE m
      [] pred.p = "isnull" -> pred.neg
      [] pred.p = "and"    -> \A i \in 1..Len(pred.args) : holds(pred.args[i], jr)
      [] pred.p = "or"     -> \E i \in 1..Len(pred.args) : holds(pred.args[i], jr)

\* the tables a predicate's columns belong to
RECURSIVE pred_entities(_)
pred_entities(pred) ==
    IF pred.p \in {"and", "or"}
    THEN UNION {pred_entities(pred.args[i]) : i \in 1..Len(pred.args)}
    ELSE {pred.col.entity}

\* a set of entities as a sequence, the queried entity first
RECURSIVE entity_seq(_)
entity_seq(E) ==
    IF E = {} THEN <<>>
    ELSE LET e == IF Model \in E THEN Model ELSE CHOOSE x \in E : TRUE
         IN <<e>> \o entity_seq(E \ {e})

\* The FROM list the statement is compiled with.  It is derived from the
\* columns clause and from the WHERE criteria: with_only_columns(func.count())
\* replaces the entity in the columns clause, so the count statement keeps
\* only the tables its WHERE criteria name.
from_list(q) ==
    entity_seq((IF q.columns = "entity" THEN {q.entity} ELSE {})
               \cup UNION {pred_entities(q.where[i]) : i \in 1..Len(q.where)})

\* the rows of the cross join of the FROM list: each maps entity to a row
RECURSIVE cross_join(_, _)
cross_join(froms, orders) ==
    IF froms = <<>> THEN << <<>> >>
    ELSE LET rest == cross_join(Tail(froms), orders)
             mine == Rows(Head(froms), orders)
             RECURSIVE pairs(_)
             pairs(i) ==
                 IF i > Len(mine) THEN <<>>
                 ELSE [j \in 1..Len(rest) |-> (Head(froms) :> mine[i]) @@ rest[j]] \o pairs(i + 1)
         IN  pairs(1)

\* the elements of seq at the positions in keep, in order
RECURSIVE pick_from(_, _, _)
pick_from(seq, keep, i) ==
    IF i > Len(seq) THEN <<>>
    ELSE (IF i \in keep THEN <<seq[i]>> ELSE <<>>) \o pick_from(seq, keep, i + 1)
pick(seq, keep) == pick_from(seq, keep, 1)

\* the joined rows that pass every WHERE clause
filtered_rows(q, orders) ==
    LET joined == cross_join(from_list(q), orders)
    IN  pick(joined, {k \in 1..Len(joined) :
                        \A i \in 1..Len(q.where) : holds(q.where[i], joined[k])})

Range(f) == {f[i] : i \in DOMAIN f}

Alphabet == <<"@", "A", "D", "G", "I", "P", "S", "a", "b", "d", "i", "n", "p", "u", "x">>
char_less(c, d) ==
    \E i, j \in 1..Len(Alphabet) : Alphabet[i] = c /\ Alphabet[j] = d /\ i < j

\* a < b for two cells of one column
cell_less(a, b) ==
    CASE is_number(a)  -> Tenths(a) < Tenths(b)
      [] a.t = "bool"  -> ~a.b /\ b.b
      [] a.t = "str"   ->
           \E k \in 1..Len(b.s) :
               /\ k - 1 <= Len(a.s)
               /\ SubSeq(a.s, 1, k - 1) = SubSeq(b.s, 1, k - 1)
               /\ (k > Len(a.s) \/ char_less(a.s[k], b.s[k]))

\* jr1 sorts strictly before jr2 under the ordering terms
RECURSIVE sorts_before(_, _, _)
sorts_before(jr1, jr2, terms) ==
    IF terms = <<>> THEN FALSE
    ELSE LET c  == Head(terms).col
             a  == jr1[c.entity][c.name]
             b  == jr2[c.entity][c.name]
             lt == IF Head(terms).dir = "asc" THEN cell_less(a, b) ELSE cell_less(b, a)
             gt == IF Head(terms).dir = "asc" THEN cell_less(b, a) ELSE cell_less(a, b)
         IN  lt \/ (~gt /\ sorts_before(jr1, jr2, Tail(terms)))

\* ORDER BY: a stable insertion sort of the rows
RECURSIVE sorted(_, _)
sorted(rows, terms) ==
    IF rows = <<>> THEN <<>>
    ELSE LET done == sorted(SubSeq(rows, 1, Len(rows) - 1), terms)
             last == rows[Len(rows)]
             k    == Cardinality({i \in 1..Len(done) : ~sorts_before(last, done[i], terms)})
         IN  SubSeq(done, 1, k) \o <<last>> \o SubSeq(done, k + 1, Len(done))

min(a, b) == IF a < b THEN a ELSE b

\* OFFSET / LIMIT (-1 when the statement has none); a backend that accepts a
\* negative OFFSET or LIMIT (SQLite) reads it as none
sliced(rows, offset, limit) ==
    LET from == IF offset < 0 THEN 1 ELSE offset + 1
        upto == IF limit < 0 THEN Len(rows) ELSE min(Len(rows), from - 1 + limit)
    IN  SubSeq(rows, from, upto)

\* Executing a statement: the result rows, or the error of the backend.  An
\* entity statement returns one-column rows holding the entity; a count
\* statement returns one row holding the count.
execute(q, orders) ==
    IF \E i \in 1..Len(q.order_by) : q.order_by[i].col.entity \notin Range(from_list(q))
    THEN Throw("ProgrammingError")
    ELSE LET rows == filtered_rows(q, orders) IN
         IF q.columns = "count" THEN Ok(<< <<Len(rows)>> >>)
         ELSE LET page == sliced(sorted(rows, q.order_by), q.offset, q.limit)
              IN  Ok([i \in 1..Len(page) |-> <<page[i][q.entity]>>])

(***************************************************************************)
(* Sessions: Session.exec (sqlmodel) and AsyncSession.execute              *)
(***************************************************************************)
\* Result.scalars(): the first column of every row
scalars(rows) == [i \in 1..Len(rows) |-> rows[i][1]]
\* ScalarResult.one(): the only element
one(xs) ==
    IF Len(xs) = 1 THEN Ok(xs[1])
    ELSE IF xs = <<>> THEN Throw("NoResultFound") ELSE Throw("MultipleResultsFound")
\* Result.scalar(): the first column of the first row, None without rows
scalar_row_count(rows) == Ok(Len(rows))
scalar(rows) == IF rows = <<>> THEN Ok(JNull) ELSE Ok(rows[1][1])

\* session.exec(statement): a select of one entity or one column yields scalars
session_exec(q, orders) ==
    LET r == execute(q, orders) IN IF r.ok THEN Ok(scalars(r.v)) ELSE r
\* await session.execute(statement): rows
session_execute(q, orders) == execute(q, orders)

\* count_result.one() after exec; count_result.scalar() after execute
count_value(variant, q, orders) ==
    IF variant = "sync" THEN
        LET r == session_exec(q, orders) IN IF r.ok THEN one(r.v) ELSE r
    ELSE
        LET r == session_execute(q, orders) IN IF r.ok THEN scalar(r.v) ELSE r

\* result.all() after exec; result.scalars().all() after execute
data_values(variant, q, orders) ==
    IF variant = "sync" THEN session_exec(q, orders)
    ELSE LET r == session_execute(q, orders) IN IF r.ok THEN Ok(scalars(r.v)) ELSE r

(***************************************************************************)
(* Paginator                                                               *)
(***************************************************************************)
\* Python's a // b on integers
floor_div(a, b) == IF b > 0 THEN a \div b ELSE (-a) \div (-b)
py_floordiv(a, b) == IF b = 0 THEN Throw("ZeroDivisionError") ELSE Ok(floor_div(a, b))
\* ceil(a / b): true division, then the ceiling
py_ceil_div_floored(a, b) == IF b = 0 THEN Throw("ZeroDivisionError") ELSE Ok(floor_div(a, b))
py_ceil_div(a, b) == IF b = 0 THEN Throw("ZeroDivisionError") ELSE Ok(-floor_div(-a, b))

\* lines 350-358 / 396-404: the dictionary paginate returns; its entries are
\* evaluated in the order written
page_of(data, total, skip, limit) ==
    LET current_page == py_floordiv(skip, limit)
        total_pages  == IF limit # 0 THEN py_ceil_div(total, limit) ELSE Ok(1)
    IN  IF ~current_page.ok THEN current_page
        ELSE IF ~total_pages.ok THEN total_pages
        ELSE Ok([data  |-> data,
                 metas |-> [total        |-> total,
                            per_page     |-> limit,
                            current_page |-> current_page.v + 1,
                            total_pages  |-> total_pages.v]])

(***************************************************************************)
(* The repositories, one over a sync Session and one over an AsyncSession  *)
(***************************************************************************)
Repos == {"sync", "async"}
Variants == {"sync", "async"}

\* BaseRepository._is_async
is_async(r) == r = "async"

Idle == [pc |-> "idle", variant |-> "none", issued |-> <<>>, query |-> <<>>,
         total |-> -1, out |-> <<>>]

Finished(i, out) == [i EXCEPT !.pc = "done", !.out = out]

\* the guard every filter method opens with: the sync methods refuse an
\* AsyncSession and the async methods a sync Session
wrong_session(r, variant) == (variant = "sync") = is_async(r)

\* filter_data / filter_data_async
\* an invocation that has just been entered with the session of `variant`
Entered(variant) == [Idle EXCEPT !.variant = variant]

\* lines 321-323 (sync), 367-369 (async): the query is built, then executed
run_filter(variant, query, orders) ==
    IF ~query.ok THEN Finished(Entered(variant), query)
    ELSE Finished([Entered(variant) EXCEPT !.issued = <<"data">>, !.query = query.v],
                  data_values(variant, query.v, orders))

filter_data(r, variant, orders) ==
    IF wrong_session(r, variant) THEN Finished(Entered(variant), Throw("RuntimeError"))
    ELSE run_filter(variant, build_filter_query(<<>>, req.criteria, req.sortby), orders)

\* lines 330-333 (sync), 376-379 (async)
run_count(variant, query, orders) ==
    IF ~query.ok THEN Finished(Entered(variant), query)
    ELSE Finished([Entered(variant) EXCEPT !.issued = <<"count">>, !.query = query.v],
                  count_value(variant, count_of(query.v), orders))

count_filtered(r, variant, orders) ==
    IF wrong_session(r, variant) THEN Finished(Entered(variant), Throw("RuntimeError"))
    ELSE run_count(variant, build_filter_query(<<>>, req.criteria, req.sortby), orders)

\* line 344 (sync), 390 (async): total is bound to what the count statement gave
counted(j, total) ==
    IF ~total.ok THEN Finished(j, total)
    ELSE [j EXCEPT !.pc = "counted", !.total = total.v]

\* a paginate that would issue the data statement while the count statement
\* is still running
run_paginate_count_overlapping(variant, query, orders) ==
    IF ~query.ok THEN Finished(Entered(variant), query)
    ELSE counted([Entered(variant) EXCEPT !.issued = <<"count", "data">>,
                                          !.query = query.v],
                 count_value(variant, count_of(query.v), orders))

\* lines 339-344 (sync), 385-390 (async)
run_paginate_count(variant, query, orders) ==
    IF ~query.ok THEN Finished(Entered(variant), query)
    ELSE counted([Entered(variant) EXCEPT !.issued = <<"count">>, !.query = query.v],
                 count_value(variant, count_of(query.v), orders))

paginate_count(r, variant, orders) ==
    IF wrong_session(r, variant) THEN Finished(Entered(variant), Throw("RuntimeError"))
    ELSE run_paginate_count(variant, build_filter_query(<<>>, req.criteria, req.sortby),
                            orders)

\* lines 350-358 (sync), 396-404 (async): the dict built from the rows read
paged(j, data, total, skip, limit) ==
    IF ~data.ok THEN Finished(j, data)
    ELSE Finished(j, page_of(data.v, total, skip, limit))

paginate_data(i, orders) ==
    paged([i EXCEPT !.issued = Append(@, "data")],
          data_values(i.variant, window(i.query, req.skip, req.limit), orders),
          i.total, req.skip, req.limit)

(***************************************************************************)
(* Inputs                                                                  *)
(***************************************************************************)
MaxRows  == 3      \* most rows the queried table holds
MaxSkip  == 2      \* largest skip handed to paginate
MaxLimit == 2      \* largest limit handed to paginate

\* the i-th row ever inserted: odd rows are paid, rows 1 and 2 tie on amount
OrderRow(i) ==
    [id       |-> JInt(i),
     status   |-> JStr(IF i % 2 = 1 THEN W_paid ELSE W_unpaid),
     amount   |-> JFloat(IF i % 3 = 0 THEN 500 ELSE 1000),
     active   |-> JBool(i % 2 = 0),
     owner_id |-> JInt(1 + (i % 2))]

Leaf(field, value) == JMap([field |-> JStr(field), value |-> value])
LeafOp(field, op, value) == JMap([field |-> JStr(field), operator |-> JStr(op), value |-> value])
Pair(field, value) == JList(<<JStr(field), value>>)
Triple(field, op, value) == JList(<<JStr(field), JStr(op), value>>)
LegacyPair(field, text) == field \o Colon \o text
AllOf(children) == JMap("and" :> JList(children))
AnyOf(children) == JMap("or" :> JList(children))

CriteriaInputs ==
    { NoValue,
      Leaf(W_status, JStr(W_paid)),
      Pair(W_status, JStr(W_paid)),
      JStr(LegacyPair(W_status, W_paid)),
      AnyOf(<<Leaf(W_status, JStr(W_paid)), Triple(W_amount, <<">", "=">>, JInt(50))>>),
      Leaf(W_owner \o Dot \o W_email, JStr(W_ax)),
      JMap(<<>>),
      Leaf(W_bogus, JInt(1)) }

SortInputs ==
    { JStr(W_empty),
      JStr(W_id \o Colon \o W_desc),
      JList(<<JList(<<JStr(W_amount), JStr(W_desc)>>), JList(<<JStr(W_id), JStr(W_asc)>>)>>),
      JStr(W_id \o Colon \o W_up) }

Requests ==
    [op : {"paginate"}, criteria : CriteriaInputs, sortby : SortInputs,
     skip : 0..MaxSkip, limit : 0..MaxLimit]
    \cup [op : {"filter_data", "count_filtered"}, criteria : CriteriaInputs,
          sortby : SortInputs, skip : {0}, limit : {0}]

NoRequest == [op |-> "none", criteria |-> NoValue, sortby |-> JStr(W_empty),
              skip |-> 0, limit |-> 0]
NoCall == [op |-> "none"]

(***************************************************************************)
(* The repositories at work on a changing table                            *)
(***************************************************************************)
(***************************************************************************)
(* The multi-database manager                                              *)
(***************************************************************************)
W_primary == <<"p", "r", "i", "m", "a", "r", "y">>
W_replica == <<"r", "e", "p", "l", "i", "c", "a">>

\* DatabaseConnection.__init__: nothing is created or checked yet
NewConnection(name) ==
    [name |-> name, tables |-> FALSE, healthy |-> FALSE, connected |-> FALSE]

\* MultiDatabaseManager.__init__; _databases in insertion order
NewManager == [databases |-> <<>>, primary |-> JNull, initialized |-> FALSE]

\* name in self._databases
registered(m, name) == \E i \in 1..Len(m.databases) : m.databases[i].name = name

\* MultiDatabaseManager.add_database
add_database(m, name, is_primary) ==
    IF registered(m, name) THEN [m |-> m, out |-> Throw("ValueError")]
    ELSE [m |-> [m EXCEPT !.databases = Append(@, NewConnection(name)),
                          !.primary = IF is_primary \/ ~truthy(m.primary)
                                      THEN JStr(name) ELSE @],
          out |-> Ok(name)]

\* one database of the loop of connect: the first `passed` databases get
\* their tables, pass the health check and are marked connected; at the next
\* one, if there is one, create_tables raises or the health check fails
connected_upto(db, i, passed, fault) ==
    IF i <= passed THEN [db EXCEPT !.tables = TRUE, !.healthy = TRUE, !.connected = TRUE]
    ELSE IF i = passed + 1 /\ fault = "health_check"
    THEN [db EXCEPT !.tables = TRUE, !.healthy = FALSE]
    ELSE db

\* MultiDatabaseManager.connect
connect(m, passed, fault) ==
    IF m.initialized THEN [m |-> m, out |-> Ok(JNull)]
    ELSE [m |-> [m EXCEPT !.databases = [i \in 1..Len(@) |->
                                            connected_upto(@[i], i, passed, fault)],
                          !.initialized = (passed = Len(m.databases))],
          out |-> IF passed = Len(m.databases) THEN Ok(JNull)
                  ELSE Throw("DatabaseError")]

\* MultiDatabaseManager.disconnect
disconnect(m) ==
    [m |-> [m EXCEPT !.databases = [i \in 1..Len(@) |-> [@[i] EXCEPT !.connected = FALSE]],
                     !.initialized = FALSE],
     out |-> Ok(JNull)]

Init ==
    /\ call = NoCall
    /\ table = <<>>
    /\ req = NoRequest
    /\ inv = [r \in Repos |-> Idle]
    /\ changed = FALSE
    /\ dbm = NewManager

ids(orders) == {orders[i].id.n : i \in 1..Len(orders)}

\* another session commits an INSERT
Insert ==
    /\ Len(table) < MaxRows
    /\ \E k \in 1..MaxRows :
          /\ \A n \in ids(table) : n < k
          /\ table' = Append(table, OrderRow(k))
    /\ changed' = TRUE
    /\ UNCHANGED <<call, req, inv, dbm>>

\* another session commits a DELETE
Delete ==
    /\ \E k \in 1..Len(table) :
          table' = SubSeq(table, 1, k - 1) \o SubSeq(table, k + 1, Len(table))
    /\ changed' = TRUE
    /\ UNCHANGED <<call, req, inv, dbm>>

\* a caller hands the same inputs to both repositories
NewRequest ==
    /\ req = NoRequest
    /\ req' \in Requests
    /\ inv' = [r \in Repos |-> Idle]
    /\ changed' = FALSE
    /\ UNCHANGED <<call, table, dbm>>

FilterData(r) ==
    /\ req.op = "filter_data" /\ inv[r].pc = "idle"
    /\ \E variant \in Variants : inv' = [inv EXCEPT ![r] = filter_data(r, variant, table)]
    /\ UNCHANGED <<call, table, req, changed, dbm>>

CountFiltered(r) ==
    /\ req.op = "count_filtered" /\ inv[r].pc = "idle"
    /\ \E variant \in Variants : inv' = [inv EXCEPT ![r] = count_filtered(r, variant, table)]
    /\ UNCHANGED <<call, table, req, changed, dbm>>

PaginateCount(r) ==
    /\ req.op = "paginate" /\ inv[r].pc = "idle"
    /\ \E variant \in Variants : inv' = [inv EXCEPT ![r] = paginate_count(r, variant, table)]
    /\ UNCHANGED <<call, table, req, changed, dbm>>

PaginateData(r) ==
    /\ req.op = "paginate" /\ inv[r].pc = "counted"
    /\ inv' = [inv EXCEPT ![r] = paginate_data(inv[r], table)]
    /\ UNCHANGED <<call, table, req, changed, dbm>>

Next ==
    \/ Insert
    \/ Delete
    \/ NewRequest
    \/ \E r \in Repos : FilterData(r)
    \/ \E r \in Repos : CountFiltered(r)
    \/ \E r \in Repos : PaginateCount(r)
    \/ \E r \in Repos : PaginateData(r)

Spec == Init /\ [][Next]_vars

(***************************************************************************)
(* A repository called again on a dataset that does not change             *)
(***************************************************************************)
\* the table holding the rows with the given ids, stored in id order
RECURSIVE table_of(_)
table_of(S) ==
    IF S = {} THEN <<>>
    ELSE LET k == CHOOSE n \in S : \A m \in S : m <= n
         IN  Append(table_of(S \ {k}), OrderRow(k))

InitUnchanged ==
    /\ call = NoCall
    /\ table \in {table_of(S) : S \in SUBSET (1..MaxRows)}
    /\ req = NoRequest
    /\ inv = [r \in Repos |-> Idle]
    /\ changed = FALSE
    /\ dbm = NewManager

\* the caller keeps what the method returned and calls it again with the
\* same arguments
Repeat(r) ==
    /\ call = NoCall
    /\ inv[r].pc = "done" /\ inv[r].variant = r
    /\ call' = [op |-> "first", repo |-> r, out |-> inv[r].out]
    /\ inv' = [inv EXCEPT ![r] = Idle]
    /\ UNCHANGED <<table, req, changed, dbm>>

NextUnchanged ==
    \/ NewRequest
    \/ \E r \in Repos : FilterData(r)
    \/ \E r \in Repos : CountFiltered(r)
    \/ \E r \in Repos : PaginateCount(r)
    \/ \E r \in Repos : PaginateData(r)
    \/ \E r \in Repos : Repeat(r)

SpecUnchanged == InitUnchanged /\ [][NextUnchanged]_vars

(***************************************************************************)
(* paginate with any integers as skip and limit, on a backend that may     *)
(* fail                                                                    *)
(***************************************************************************)
WindowRequests ==
    [op : {"paginate"},
     criteria : {NoValue, Leaf(W_status, JStr(W_paid)), Leaf(W_bogus, JInt(1))},
     sortby : {JStr(W_empty), JStr(W_id \o Colon \o W_desc)},
     skip : (-MaxSkip)..MaxSkip, limit : (-MaxLimit)..MaxLimit]

NewWindowRequest ==
    /\ req = NoRequest
    /\ req' \in WindowRequests
    /\ inv' = [r \in Repos |-> Idle]
    /\ changed' = FALSE
    /\ UNCHANGED <<call, table, dbm>>

\* a paginate that would run the count statement again after it raised
failed_count_retrying(variant, query) ==
    IF ~query.ok THEN Finished(Entered(variant), query)
    ELSE Finished([Entered(variant) EXCEPT !.issued = <<"count", "count">>,
                                           !.query = query.v],
                  Throw("OperationalError"))

\* lines 343, 389: the execution of the count statement raises
failed_count(variant, query) ==
    IF ~query.ok THEN Finished(Entered(variant), query)
    ELSE Finished([Entered(variant) EXCEPT !.issued = <<"count">>, !.query = query.v],
                  Throw("OperationalError"))

\* lines 347, 393: the execution of the data statement raises
failed_data(i) ==
    Finished([i EXCEPT !.issued = Append(@, "data")], Throw("OperationalError"))

\* the backend fails while paginate executes the count statement (an outage)
CountQueryFails(r) ==
    /\ req.op = "paginate" /\ inv[r].pc = "idle"
    /\ inv' = [inv EXCEPT ![r] =
                  failed_count(r, build_filter_query(<<>>, req.criteria, req.sortby))]
    /\ UNCHANGED <<call, table, req, changed, dbm>>

\* the backend fails while paginate executes the data statement (an outage,
\* or a backend that rejects a negative OFFSET or LIMIT)
DataQueryFails(r) ==
    /\ req.op = "paginate" /\ inv[r].pc = "counted"
    /\ inv' = [inv EXCEPT ![r] = failed_data(inv[r])]
    /\ UNCHANGED <<call, table, req, changed, dbm>>

NextBackend ==
    \/ NewWindowRequest
    \/ \E r \in Repos : PaginateCount(r)
    \/ \E r \in Repos : PaginateData(r)
    \/ \E r \in Repos : CountQueryFails(r)
    \/ \E r \in Repos : DataQueryFails(r)

SpecBackend == InitUnchanged /\ [][NextBackend]_vars

(***************************************************************************)
(* The engine's operations called on their own, over bounded inputs        *)
(***************************************************************************)
MaxDepth == 3      \* most segments of a dotted path handed to resolve

SegmentInputs == {W_id, W_status, W_owner, W_email, W_profile, W_country, W_bogus}

RECURSIVE join_dots(_)
join_dots(segs) ==
    IF Len(segs) = 1 THEN segs[1] ELSE segs[1] \o Dot \o join_dots(Tail(segs))

SegmentSeqs == UNION {[1..n -> SegmentInputs] : n \in 1..MaxDepth}

ColumnInputs == {Column("Order", "status"), Column("Order", "id"),
                 Column("Order", "amount"), Column("Order", "active")}

OperatorInputs ==
    {JStr(<<"=">>), JStr(<<"e", "q">>), JStr(<<"!", "=">>), JStr(<<">">>), JStr(<<"l", "t", "e">>),
     JStr(W_like), JStr(W_not_ilike), JStr(W_in), JStr(<<"I", "N">>), JStr(W_not_in),
     JStr(<<"N", "o", "t", "_", "I", "n">>), JStr(W_is_null), JStr(W_is_not_null),
     JStr(W_bogus), JStr(<<"E", "Q">>), JInt(1)}

ScalarInputs ==
    {JStr(W_paid), JStr(W_PAID), JStr(W_100), JStr(W_true), JStr(W_True), JStr(W_yes), JStr(W_no),
     JStr(W_empty), JStr(W_bogus),
     JInt(0), JInt(1), JInt(2), JInt(100), JFloat(1000), JFloat(505),
     JBool(TRUE), JBool(FALSE)}

ValueInputs ==
    ScalarInputs \cup
    {JNull, JList(<<>>), JList(<<JStr(W_paid), JStr(W_unpaid)>>), JList(<<JInt(1), JInt(3)>>),
     JList(<<JBool(TRUE)>>), JMap(<<>>), JInf}

FieldInputs == {W_status, W_id, W_amount, W_active, W_owner \o Dot \o W_email}

\* the text of a scalar in a legacy 'field:value' string
legacy_text(v) ==
    CASE v.t = "str"  -> v.s
      [] v.t = "bool" -> IF v.b THEN W_true ELSE <<"f", "a", "l", "s", "e">>
      [] OTHER        -> py_str(v)

ChildInputs ==
    { Leaf(W_status, JStr(W_paid)),
      Pair(W_active, JBool(TRUE)),
      Triple(W_amount, <<">">>, JInt(50)),
      LeafOp(W_id, W_in, JList(<<JInt(1), JInt(3)>>)),
      JStr(LegacyPair(W_status, <<"u", "n">>)),
      JStr(W_or \o LParen \o LegacyPair(W_id, W_1) \o Comma \o LegacyPair(W_active, W_yes) \o RParen),
      Leaf(W_owner \o Dot \o W_email, JStr(W_bx)),
      AnyOf(<<Pair(W_id, JInt(2)), Triple(W_status, W_like, JStr(<<"P">>))>>) }

\* relation hints (load) handed to build
LoadInputs == {<<>>, <<W_owner>>, <<W_owner, W_profile>>}

\* criteria payloads whose field name, composite value or operator is of
\* another type than the parser reads it as
OddCriteriaInputs ==
    { JMap([field |-> JInt(1), value |-> JInt(1)]),
      JList(<<JInt(1), JInt(2)>>),
      JList(<<JNull, JStr(<<"=">>), JInt(2)>>),
      JMap("and" :> JInt(5)),
      JMap("or" :> JNull),
      JMap("and" :> JList(<<Leaf(W_status, JStr(W_paid)), JInt(5)>>)),
      Triple(W_id, W_bogus, JInt(1)),
      JList(<<JStr(W_id), JInt(1), JInt(1)>>) }

\* sort specs beyond the well-formed ones: other types, malformed entries
OddSortInputs ==
    { JInt(5), JBool(TRUE), JMap([field |-> JStr(W_id)]),
      JList(<<JInt(1)>>),
      JList(<<JList(<<JInt(1), JStr(W_asc)>>)>>),
      JList(<<JList(<<JStr(W_id), JStr(W_up)>>)>>),
      JList(<<JList(<<JStr(W_id), JInt(1)>>)>>),
      JList(<<JList(<<JStr(W_id)>>)>>),
      JList(<<JList(<<JStr(W_bogus), JStr(W_asc)>>)>>),
      JStr(W_id),
      JStr(W_amount \o Colon \o W_desc \o Comma \o W_id \o Colon \o W_asc) }

BuildSortInputs == SortInputs \cup OddSortInputs

BuildCriteriaInputs ==
    CriteriaInputs \cup ChildInputs \cup
    {JList(<<>>), JStr(W_empty), JInt(0), JBool(FALSE), JInt(5), JBool(TRUE),
     JList(<<JStr(W_status)>>), JStr(W_status), AllOf(<<>>)}
    \cup OddCriteriaInputs

Resolve ==
    /\ call = NoCall
    /\ \E segs \in SegmentSeqs :
          call' = [op |-> "resolve", segs |-> segs,
                   out |-> get_column_by_path(JStr(join_dots(segs)))]
    /\ UNCHANGED <<table, req, inv, changed, dbm>>

Apply ==
    /\ call = NoCall
    /\ \E column \in ColumnInputs, operator \in OperatorInputs, value \in ValueInputs :
          call' = [op |-> "apply", column |-> column, operator |-> operator, value |-> value,
                   out |-> apply_operator(column, operator, value)]
    /\ UNCHANGED <<table, req, inv, changed, dbm>>

\* the three encodings of "field equals value"
Encodings ==
    /\ call = NoCall
    /\ \E field \in FieldInputs, value \in ScalarInputs :
          call' = [op |-> "encodings", field |-> field, value |-> value,
                   leaf   |-> parse_criteria(Leaf(field, value)),
                   pair   |-> parse_criteria(Pair(field, value)),
                   legacy |-> parse_criteria(JStr(LegacyPair(field, legacy_text(value))))]
    /\ UNCHANGED <<table, req, inv, changed, dbm>>

\* composites over three children, flat and nested
Composite ==
    /\ call = NoCall
    /\ \E A \in ChildInputs, B \in ChildInputs, C \in ChildInputs :
          call' = [op |-> "composite",
                   a |-> parse_criteria(A), b |-> parse_criteria(B), c |-> parse_criteria(C),
                   all_flat   |-> parse_criteria(AllOf(<<A, B, C>>)),
                   any_flat   |-> parse_criteria(AnyOf(<<A, B, C>>)),
                   all_nested |-> parse_criteria(AllOf(<<A, AllOf(<<B, C>>)>>)),
                   any_nested |-> parse_criteria(AnyOf(<<A, AnyOf(<<B, C>>)>>)),
                   all_deep   |-> parse_criteria(AllOf(<<AllOf(<<AllOf(<<A>>), B>>), C>>)),
                   any_deep   |-> parse_criteria(AnyOf(<<AnyOf(<<AnyOf(<<A>>), B>>), C>>))]
    /\ UNCHANGED <<table, req, inv, changed, dbm>>

Build ==
    /\ call = NoCall
    /\ \E load \in LoadInputs, criteria \in BuildCriteriaInputs, sortby \in BuildSortInputs :
          call' = [op |-> "build", load |-> load, criteria |-> criteria, sortby |-> sortby,
                   out |-> build_filter_query(load, criteria, sortby)]
    /\ UNCHANGED <<table, req, inv, changed, dbm>>

\* criteria that are malformed, at top level or as the child of a composite
MalformedInputs ==
    { JList(<<JStr(W_status), JStr(<<"=">>), JStr(W_paid), JStr(W_paid)>>),
      JMap([value |-> JStr(W_paid)]),
      JMap([operator |-> JStr(<<"=">>), value |-> JInt(1)]),
      JNull, JFloat(15),
      AllOf(<<Leaf(W_status, JStr(W_paid)), JInt(5)>>),
      AnyOf(<<JNull, Leaf(W_status, JStr(W_paid))>>),
      AllOf(<<Pair(W_id, JInt(1)), JList(<<JStr(W_id)>>)>>),
      AnyOf(<<Pair(W_id, JInt(1)), JMap(<<>>)>>),
      AllOf(<<AnyOf(<<Leaf(W_status, JStr(W_paid)), JBool(TRUE)>>)>>),
      AnyOf(<<Leaf(W_bogus, JInt(1)), JInt(5)>>) }

ParseInputs == BuildCriteriaInputs \cup MalformedInputs

Parse ==
    /\ call = NoCall
    /\ \E criteria \in ParseInputs :
          call' = [op |-> "parse", criteria |-> criteria, out |-> parse_criteria(criteria)]
    /\ UNCHANGED <<table, req, inv, changed, dbm>>

\* 'field:value' pairs of legacy strings
LegacyPairInputs ==
    { LegacyPair(W_status, W_paid),
      LegacyPair(W_status, <<"P", "A">>),
      LegacyPair(W_status, <<"p", "_", "i", "d">>),
      LegacyPair(W_amount, W_100),
      LegacyPair(W_amount, W_50),
      LegacyPair(W_amount, W_bogus),
      LegacyPair(W_id, W_1),
      LegacyPair(W_active, W_yes),
      LegacyPair(W_active, W_no),
      LegacyPair(W_owner \o Dot \o W_email, W_ax) }

\* two pairs parsed alone, wrapped in and(...) and or(...), and unwrapped
Legacy ==
    /\ call = NoCall
    /\ \E p \in LegacyPairInputs, q \in LegacyPairInputs :
          call' = [op |-> "legacy", p |-> p, q |-> q,
                   one_p |-> parse_legacy_criteria(p),
                   one_q |-> parse_legacy_criteria(q),
                   wrapped_and |-> parse_legacy_criteria(W_and \o LParen \o p \o Comma \o q \o RParen),
                   unwrapped   |-> parse_legacy_criteria(p \o Comma \o Space \o q),
                   wrapped_or  |-> parse_legacy_criteria(W_or \o LParen \o p \o Comma \o q \o RParen)]
    /\ UNCHANGED <<table, req, inv, changed, dbm>>

\* entries of a sort spec: a field and a direction token
SortEntryInputs == {W_id, W_amount, W_status, W_bogus} \X {W_asc, W_desc, W_up}
MaxSortEntries == 2
SortEntrySeqs == UNION {[1..n -> SortEntryInputs] : n \in 1..MaxSortEntries}

\* the sort spec as a sequence of [field, direction] pairs
pairs_form(entries) ==
    JList([i \in 1..Len(entries) |-> JList(<<JStr(entries[i][1]), JStr(entries[i][2])>>)])

\* the sort spec as the string 'field:dir,field2:dir'
RECURSIVE string_text(_)
string_text(entries) ==
    entries[1][1] \o Colon \o entries[1][2]
    \o (IF Len(entries) = 1 THEN <<>> ELSE Comma \o string_text(Tail(entries)))
string_form(entries) == JStr(string_text(entries))

\* a table whose rows are not stored in the order of their ids
StoredOrders == <<OrderRow(2), OrderRow(3), OrderRow(1)>>

\* lines 322-323 of filter_data, reached when the query was built
fetch(query, orders) == IF query.ok THEN session_exec(query.v, orders) ELSE query

\* one sort spec handed to build in both forms, and filter_data run with it
Sort ==
    /\ call = NoCall
    /\ \E entries \in SortEntrySeqs :
          call' = [op |-> "sort", entries |-> entries,
                   as_pairs  |-> build_filter_query(<<>>, NoValue, pairs_form(entries)),
                   as_string |-> build_filter_query(<<>>, NoValue, string_form(entries)),
                   rows |-> fetch(build_filter_query(<<>>, NoValue, pairs_form(entries)),
                                  StoredOrders)]
    /\ UNCHANGED <<table, req, inv, changed, dbm>>

\* the two statements paginate and count_filtered derive from one request
CountPlan ==
    /\ call = NoCall
    /\ \E load \in LoadInputs, criteria \in CriteriaInputs, sortby \in SortInputs :
          call' = [op |-> "count_plan", load |-> load, criteria |-> criteria,
                   sortby |-> sortby,
                   data  |-> build_filter_query(load, criteria, sortby),
                   count |-> count_query(build_filter_query(load, criteria, sortby))]
    /\ UNCHANGED <<table, req, inv, changed, dbm>>

NextEngine ==
    \/ Resolve
    \/ Apply
    \/ Encodings
    \/ Composite
    \/ Build
    \/ CountPlan
    \/ Parse
    \/ Legacy
    \/ Sort

SpecEngine == Init /\ [][NextEngine]_vars

(***************************************************************************)
(* The calls made on the multi-database manager                            *)
(***************************************************************************)
DatabaseNames == {W_empty, W_primary, W_replica}
Faults == {"create_tables", "health_check"}

AddDatabase ==
    /\ \E name \in DatabaseNames, is_primary \in BOOLEAN :
          /\ dbm' = add_database(dbm, name, is_primary).m
          /\ call' = [op |-> "add_database", name |-> name,
                      out |-> add_database(dbm, name, is_primary).out]
    /\ UNCHANGED <<table, req, inv, changed>>

Connect ==
    /\ \E passed \in 0..Len(dbm.databases), fault \in Faults :
          /\ dbm' = connect(dbm, passed, fault).m
          /\ call' = [op |-> "connect", out |-> connect(dbm, passed, fault).out]
    /\ UNCHANGED <<table, req, inv, changed>>

Disconnect ==
    /\ dbm' = disconnect(dbm).m
    /\ call' = [op |-> "disconnect", out |-> disconnect(dbm).out]
    /\ UNCHANGED <<table, req, inv, changed>>

NextManager ==
    \/ AddDatabase
    \/ Connect
    \/ Disconnect

SpecManager == Init /\ [][NextManager]_vars

(***************************************************************************)
(* Properties of the paginator (specification Spec)                        *)
(***************************************************************************)
\* the joined row of an entity row with the rows its own foreign keys name
owned(row) ==
    LET owner   == CHOOSE o \in Range(OwnerRows) : o.id = row.owner_id
        profile == CHOOSE p \in Range(ProfileRows) : p.id = owner.profile_id
    IN  ("Order" :> row) @@ ("Owner" :> owner) @@ ("Profile" :> profile)

\* the rows of the entity that satisfy the criteria (all of them without criteria)
Matching(criteria, orders) ==
    IF criteria.t = "null" THEN orders
    ELSE pick(orders, {k \in 1..Len(orders) :
                         holds(parse_criteria(criteria).v, owned(orders[k]))})

Meaningful(criteria) == criteria.t = "null" \/ parse_criteria(criteria).ok

\* the matching rows in the order of the sort spec, from skip on, at most limit
ExpectedItems(r, orders) ==
    LET rows  == Matching(req.criteria, orders)
        terms == IF truthy(req.sortby) THEN order_by_items(req.sortby).v ELSE <<>>
        page  == sliced(sorted([i \in 1..Len(rows) |-> owned(rows[i])], terms),
                        req.skip, req.limit)
    IN  [i \in 1..Len(page) |-> page[i]["Order"]]

Returned(r) == inv[r].pc = "done" /\ inv[r].variant = r
Paged(r) == req.op = "paginate" /\ Returned(r) /\ inv[r].out.ok

\* C1: paginate with limit = 0 and skip >= 0 does not fail and returns a Page
\* with no items, total = the number of matching rows, current_page = 1 and
\* total_pages = 1.
C1_LimitZeroPermitted ==
    \A r \in Repos :
        ( /\ req.op = "paginate" /\ req.limit = 0 /\ req.skip >= 0
          /\ Returned(r) /\ ~changed
          /\ Meaningful(req.criteria)
          /\ build_filter_query(<<>>, req.criteria, req.sortby).ok )
        => /\ inv[r].out.ok
           /\ inv[r].out.v.data = <<>>
           /\ inv[r].out.v.metas.total = Len(Matching(req.criteria, table))
           /\ inv[r].out.v.metas.current_page = 1
           /\ inv[r].out.v.metas.total_pages = 1

\* C2: for total >= 0, skip >= 0 and limit > 0 the Page of paginate and of
\* paginate_async has per_page = limit, current_page = floor(skip / limit) + 1
\* and total_pages = ceil(total / limit).
C2_PageArithmetic ==
    \A r \in Repos :
        (Paged(r) /\ req.limit > 0 /\ req.skip >= 0 /\ inv[r].out.v.metas.total >= 0)
        => LET m == inv[r].out.v.metas IN
           /\ m.per_page = req.limit
           /\ (m.current_page - 1) * req.limit <= req.skip
           /\ req.skip < m.current_page * req.limit
           /\ m.total_pages * req.limit >= m.total
           /\ (m.total_pages - 1) * req.limit < m.total

C2_Witness ==
    \E r \in Repos :
        /\ Paged(r) /\ req.limit = 2 /\ req.skip = 2
        /\ inv[r].out.v.metas.total = 3
        /\ inv[r].out.v.metas.total_pages = 2
        /\ inv[r].out.v.metas.current_page = 2

\* C4: paginate returns total = the number of entity rows that satisfy the
\* criteria (all rows without criteria), whatever skip, limit and sort are, and
\* items = the rows at positions skip .. skip+limit-1 of the matching rows.
C4_TotalAndItems ==
    \A r \in Repos :
        (Paged(r) /\ ~changed /\ Meaningful(req.criteria))
        => /\ inv[r].out.v.metas.total = Len(Matching(req.criteria, table))
           /\ inv[r].out.v.data = ExpectedItems(r, table)

same_outcome(a, b) ==
    /\ a.ok = b.ok
    /\ IF a.ok THEN a.v = b.v ELSE a.exc = b.exc /\ a.kind = b.kind

\* C9: for the same inputs against the same dataset the sync methods on a sync
\* session and the async methods on an async session return the same result:
\* the same Page (items in the same order, same metadata) for paginate, the
\* same rows for filter_data, the same count for count_filtered.
C9_SyncAsyncAgree ==
    (Returned("sync") /\ Returned("async") /\ ~changed)
    => same_outcome(inv["sync"].out, inv["async"].out)

C9_Witness ==
    /\ Paged("sync") /\ Paged("async") /\ ~changed
    /\ Len(inv["sync"].out.v.data) = 2
    /\ inv["async"].out.v.metas.total = 3
    /\ req.sortby.t = "list"

(***************************************************************************)
(* Properties of the engine's operations (specification SpecEngine)        *)
(***************************************************************************)
\* every row of the queried table joined with every row of the related tables
JoinedUniverse ==
    Range(cross_join(<<"Order", "Owner", "Profile">>, [i \in 1..MaxRows |-> OrderRow(i)]))

same_rows(p, q) == \A jr \in JoinedUniverse : holds(p, jr) = holds(q, jr)

PlainText(s) ==
    /\ strip(s) = s
    /\ \A i \in 1..Len(s) : s[i] \notin {",", "%", "_"}

C5_CompositeSets ==
    (call.op = "composite" /\ call.a.ok /\ call.b.ok /\ call.c.ok)
    => /\ call.all_flat.ok /\ call.any_flat.ok
       /\ call.all_nested.ok /\ call.any_nested.ok
       /\ call.all_deep.ok /\ call.any_deep.ok
       /\ \A jr \in JoinedUniverse :
             /\ holds(call.all_flat.v, jr)
                = (holds(call.a.v, jr) /\ holds(call.b.v, jr) /\ holds(call.c.v, jr))
             /\ holds(call.any_flat.v, jr)
                = (holds(call.a.v, jr) \/ holds(call.b.v, jr) \/ holds(call.c.v, jr))
             /\ holds(call.all_nested.v, jr) = holds(call.all_flat.v, jr)
             /\ holds(call.any_nested.v, jr) = holds(call.any_flat.v, jr)
             /\ holds(call.all_deep.v, jr) = holds(call.all_flat.v, jr)
             /\ holds(call.any_deep.v, jr) = holds(call.any_flat.v, jr)

C5_Witness ==
    /\ call.op = "composite" /\ call.a.ok /\ call.b.ok /\ call.c.ok
    /\ \E jr \in JoinedUniverse : holds(call.all_nested.v, jr)
    /\ \E jr \in JoinedUniverse : holds(call.any_deep.v, jr) /\ ~holds(call.all_flat.v, jr)
    /\ \E jr \in JoinedUniverse : ~holds(call.any_flat.v, jr)
    /\ \E jr \in JoinedUniverse : holds(call.a.v, jr) /\ ~holds(call.b.v, jr)
    /\ \E jr \in JoinedUniverse : holds(call.b.v, jr) /\ ~holds(call.c.v, jr)

\* C6: for every column type and every value that is not a sequence, apply
\* with `in` or `not_in` fails with InvalidOperatorValue and with no other
\* error kind, and returns no predicate.
C6_MembershipNeedsSequence ==
    ( /\ call.op = "apply"
      /\ call.operator.t = "str"
      /\ lower(call.operator.s) \in {W_in, W_not_in}
      /\ call.value.t # "list" )
    => (~call.out.ok /\ call.out.kind = "InvalidOperatorValue")

\* the entity reached by following every segment as a declared relation
RECURSIVE reach(_, _)
reach(entity, segs) ==
    IF segs = <<>> THEN entity
    ELSE IF has_key(Schema[entity].relationships, segs[1])
    THEN reach(Schema[entity].relationships[key_of(Schema[entity].relationships, segs[1])],
               Tail(segs))
    ELSE "none"

\* C7: resolve returns a column only when every non-final segment names a
\* declared relation on the current entity and the final segment names a column
\* of the entity reached, and it returns that column; a path whose last
\* segment is a relation fails with ColumnNotFound.
C7_ResolveStrict ==
    call.op = "resolve"
    => LET n == Len(call.segs)
           e == reach(Model, SubSeq(call.segs, 1, n - 1))
       IN  /\ call.out.ok
              => /\ e # "none"
                 /\ has_key(Schema[e].columns, call.segs[n])
                 /\ call.out.v = Column(e, key_of(Schema[e].columns, call.segs[n]))
           /\ reach(Model, call.segs) # "none"
              => (~call.out.ok /\ call.out.kind = "ColumnNotFound")

\* C8: a path of depth 2 or more whose non-final segments are declared
\* relations and whose final segment is a column of the entity reached
\* resolves to that column; when a segment names neither a column nor a
\* relation on the entity the walk has reached, resolve fails with
\* UnresolvableField naming that segment and that entity.
C8_NestedPaths ==
    call.op = "resolve"
    => LET n == Len(call.segs)
           e == reach(Model, SubSeq(call.segs, 1, n - 1))
       IN  /\ (n >= 2 /\ e # "none" /\ has_key(Schema[e].columns, call.segs[n]))
              => call.out = Ok(Column(e, key_of(Schema[e].columns, call.segs[n])))
           /\ \A k \in 1..n :
                 LET at == reach(Model, SubSeq(call.segs, 1, k - 1)) IN
                 ( /\ at # "none"
                   /\ ~has_key(Schema[at].columns, call.segs[k])
                   /\ ~has_key(Schema[at].relationships, call.segs[k]) )
                 => /\ ~call.out.ok
                    /\ call.out.kind = "UnresolvableField"
                    /\ call.out.detail = [part |-> call.segs[k], entity |-> at]

C8_Witness ==
    /\ call.op = "resolve"
    /\ call.segs = <<W_owner, W_profile, W_country>>
    /\ call.out = Ok(Column("Profile", "country"))

\* C10: whenever a criteria value other than absent/null is supplied, build
\* attaches its predicate as the filter or fails; it never returns an
\* unfiltered query, also not for an empty mapping, sequence or string.
C10_SuppliedCriteriaFilters ==
    (call.op = "build" /\ call.criteria.t # "null" /\ call.out.ok)
    => call.out.v.where # <<>>

(***************************************************************************)
(* Properties of the derived plans (specification SpecEngine)              *)
(***************************************************************************)
\* C11: the count plan derived from a built query carries the data plan's
\* filter predicate, no ordering term and no eager-load hint, whatever the
\* criteria, the sort spec and the relation hints
C11_CountPlanShape ==
    (call.op = "count_plan" /\ call.data.ok)
    => /\ call.count.ok
       /\ call.count.v.columns = "count"
       /\ call.count.v.where = call.data.v.where
       /\ call.count.v.order_by = <<>>
       /\ call.count.v.options = <<>>

C11_Witness ==
    /\ call.op = "count_plan" /\ call.data.ok /\ call.count.ok
    /\ call.load # <<>>
    /\ call.data.v.where # <<>> /\ call.count.v.where = call.data.v.where
    /\ Len(call.data.v.order_by) = 2 /\ call.count.v.order_by = <<>>

\* C12: with relation hints given, the built data query carries one
\* eager-load instruction per named relation
C12_LoadHintsAttached ==
    (call.op = "build" /\ call.out.ok)
    => Len(call.out.v.options) = Len(call.load)

(***************************************************************************)
(* Properties of the errors (specification SpecEngine)                     *)
(***************************************************************************)
\* C13: for every payload of criteria and sort spec, build returns a query
\* or fails with a client-input error (an HTTPException with status 400); no
\* other exception escapes
C13_OnlyClientErrors ==
    call.op = "build" => (call.out.ok \/ call.out.exc = "HTTPException")

\* the error a malformed expression is to be rejected with ("none" when the
\* expression has a shape the parser reads)
rejection(c) ==
    CASE c.t = "list" /\ Len(c.l) \notin {2, 3}                      -> "InvalidConditionShape"
      [] c.t = "map" /\ DOMAIN c.m \cap {"field", "and", "or"} = {}  -> "MissingField"
      [] c.t \notin {"map", "list", "str"}                           -> "InvalidCriteriaFormat"
      [] OTHER                                                       -> "none"

\* the children of a composite with a sequence under and / or
children(c) ==
    IF c.t # "map" THEN <<>>
    ELSE IF "and" \in DOMAIN c.m
         THEN (IF c.m["and"].t = "list" THEN c.m["and"].l ELSE <<>>)
    ELSE IF "or" \in DOMAIN c.m
         THEN (IF c.m["or"].t = "list" THEN c.m["or"].l ELSE <<>>)
    ELSE <<>>

\* C14: parse yields no predicate for a malformed expression: a positional
\* sequence of another length than 2 or 3 fails with InvalidConditionShape, a
\* flat mapping without 'field' fails, a value that is no mapping, sequence
\* or string fails with InvalidCriteriaFormat, at top level and as a child
\* of a composite (where the first child to fail decides the error)
C14_MalformedRejected ==
    call.op = "parse"
    => LET c  == call.criteria
           cs == children(call.criteria)
       IN  /\ rejection(c) # "none"
              => /\ ~call.out.ok
                 /\ call.out.exc = "HTTPException"
                 /\ call.out.kind = rejection(c)
           /\ \A i \in 1..Len(cs) :
                 rejection(cs[i]) # "none"
                 => /\ ~call.out.ok
                    /\ (\A j \in 1..(i - 1) : parse_criteria(cs[j]).ok)
                       => (call.out.exc = "HTTPException" /\ call.out.kind = rejection(cs[i]))

C14_Witness ==
    /\ call.op = "parse"
    /\ call.criteria = AllOf(<<Leaf(W_status, JStr(W_paid)), JInt(5)>>)
    /\ call.out = Raise("InvalidCriteriaFormat", <<>>)

\* the operator tokens of the table of operators
Recognized ==
    OpEq \cup OpNe \cup OpGt \cup OpGte \cup OpLt \cup OpLte
    \cup {W_like, W_ilike, W_not_like, W_not_ilike, W_in, W_not_in, W_is_null, W_is_not_null}

\* C15: an operator token that is not recognized after case folding makes
\* apply fail with UnsupportedOperator, a kind of its own
C15_UnsupportedDistinct ==
    ( /\ call.op = "apply"
      /\ call.operator.t = "str"
      /\ lower(call.operator.s) \notin Recognized )
    => (~call.out.ok /\ call.out.kind = "UnsupportedOperator")

\* C16: on a numeric column, a value whose conversion to the column's type
\* fails is kept as it is and the predicate of the operator is returned (here
\* for the equality operators, which take any value); on a string column the
\* value is never converted
C16_FailedConversionKept ==
    ( /\ call.op = "apply"
      /\ call.operator.t = "str"
      /\ lower(call.operator.s) \in OpEq \cup OpNe )
    => /\ ( /\ call.column.type \in {"int", "float"}
            /\ ~py_isinstance(call.value, call.column.type)
            /\ ~py_convert(call.column.type, call.value).ok )
          => (call.out.ok /\ call.out.v.val = call.value)
       /\ call.column.type = "str"
          => (call.out.ok /\ call.out.v.val = call.value)

(***************************************************************************)
(* Properties of the legacy strings (specification SpecEngine)             *)
(***************************************************************************)
\* what a pair 'field:value' is to select on a joined row: a case-insensitive
\* substring match on a string column, equality with (value in true/1/yes) on
\* a boolean column, equality with the converted value on a numeric column
pair_selects(pair, jr) ==
    LET column == get_column_by_path(JStr(split1(pair, ":")[1])).v
        V      == split1(pair, ":")[2]
        cell   == jr[column.entity][column.name]
    IN  CASE column.type = "str"  -> is_substring(lower(V), lower(cell.s))
          [] column.type = "bool" -> cell.b = (lower(V) \in TrueWords)
          [] OTHER -> Tenths(cell) = Tenths(py_convert(column.type, JStr(V)).v)

pair_converts(pair) ==
    LET column == get_column_by_path(JStr(split1(pair, ":")[1])).v
    IN  column.type \in {"str", "bool"} \/ py_convert(column.type, JStr(split1(pair, ":")[2])).ok

\* a pair whose value holds no LIKE wildcard
pair_is_plain(pair) == PlainText(split1(pair, ":")[2])

pairs_combine ==
    /\ (call.one_p.ok /\ call.one_q.ok)
       => /\ call.wrapped_and.ok /\ call.unwrapped.ok /\ call.wrapped_or.ok
          /\ \A jr \in JoinedUniverse :
                /\ holds(call.wrapped_and.v, jr)
                   = (holds(call.one_p.v, jr) /\ holds(call.one_q.v, jr))
                /\ holds(call.unwrapped.v, jr) = holds(call.wrapped_and.v, jr)
                /\ holds(call.wrapped_or.v, jr)
                   = (holds(call.one_p.v, jr) \/ holds(call.one_q.v, jr))
    /\ (~call.one_p.ok \/ ~call.one_q.ok)
       => (~call.wrapped_and.ok /\ ~call.unwrapped.ok /\ ~call.wrapped_or.ok)

\* C17 as stated: every pair on a string column is a substring match
C17_LegacyParsing ==
    call.op = "legacy"
    => /\ pairs_combine
       /\ IF pair_converts(call.p)
          THEN call.one_p.ok
               /\ \A jr \in JoinedUniverse : holds(call.one_p.v, jr) = pair_selects(call.p, jr)
          ELSE ~call.one_p.ok /\ call.one_p.kind = "InvalidLegacyValue"

\* C17, amended: 'and(p1,...,pn)' and the unwrapped 'p1,...,pn' give the AND
\* of the pairs, 'or(p1,...,pn)' their OR; a pair is equality with (value in
\* true/1/yes) on a boolean column, equality with the converted value on a
\* numeric column (InvalidLegacyValue when the conversion raises), and on a
\* string column the pattern %value% matched case-insensitively: a substring
\* match when the value holds neither % nor _
C17_LegacyParsingPlain ==
    call.op = "legacy"
    => /\ pairs_combine
       /\ IF pair_converts(call.p)
          THEN call.one_p.ok
               /\ pair_is_plain(call.p)
                  => \A jr \in JoinedUniverse :
                        holds(call.one_p.v, jr) = pair_selects(call.p, jr)
          ELSE ~call.one_p.ok /\ call.one_p.kind = "InvalidLegacyValue"

C17_Witness ==
    /\ call.op = "legacy"
    /\ call.p = LegacyPair(W_status, W_paid) /\ call.q = LegacyPair(W_amount, W_100)
    /\ call.wrapped_and.ok
    /\ holds(call.wrapped_and.v, owned(OrderRow(1)))
    /\ ~holds(call.wrapped_and.v, owned(OrderRow(3)))
    /\ holds(call.wrapped_or.v, owned(OrderRow(3)))
    /\ OrderRow(1).status = JStr(W_paid) /\ OrderRow(1).amount = JFloat(1000)
    /\ OrderRow(3).status = JStr(W_paid) /\ OrderRow(3).amount = JFloat(500)

(***************************************************************************)
(* Properties of the sort spec (specification SpecEngine)                  *)
(***************************************************************************)
sort_entry_is_valid(entry) ==
    get_column_by_path(JStr(entry[1])).ok /\ entry[2] \in {W_asc, W_desc}

\* row x may come before row y under the entries: the first entry on which
\* they differ puts x first
RECURSIVE in_sort_order(_, _, _)
in_sort_order(x, y, entries) ==
    IF entries = <<>> THEN TRUE
    ELSE LET name == get_column_by_path(JStr(entries[1][1])).v.name
             up   == entries[1][2] = W_asc
         IN  IF cell_less(x[name], y[name]) THEN up
             ELSE IF cell_less(y[name], x[name]) THEN ~up
             ELSE in_sort_order(x, y, Tail(entries))

\* C18: a sort spec of valid entries gives exactly one ordering term per
\* entry, in the given order, the same for the sequence form and the string
\* form; rows that tie on earlier entries are ordered by later ones
C18_SortTerms ==
    (call.op = "sort" /\ \A i \in 1..Len(call.entries) : sort_entry_is_valid(call.entries[i]))
    => /\ call.as_pairs.ok /\ call.as_string.ok /\ call.rows.ok
       /\ call.as_string.v = call.as_pairs.v
       /\ Len(call.as_pairs.v.order_by) = Len(call.entries)
       /\ \A i \in 1..Len(call.entries) :
             /\ call.as_pairs.v.order_by[i].col = get_column_by_path(JStr(call.entries[i][1])).v
             /\ (call.as_pairs.v.order_by[i].dir = "asc") = (call.entries[i][2] = W_asc)
       /\ Len(call.rows.v) = Len(StoredOrders)
       /\ Range(call.rows.v) = Range(StoredOrders)
       /\ \A a, b \in 1..Len(call.rows.v) :
             a < b => in_sort_order(call.rows.v[a], call.rows.v[b], call.entries)

C18_Witness ==
    /\ call.op = "sort"
    /\ call.entries = << <<W_amount, W_desc>>, <<W_id, W_asc>> >>
    /\ call.as_string.ok /\ Len(call.as_string.v.order_by) = 2
    /\ call.rows = Ok(<<OrderRow(1), OrderRow(2), OrderRow(3)>>)
    /\ OrderRow(1).amount = OrderRow(2).amount

\* the [field, direction] entries a sort spec names, when it is a sequence
\* of pairs of strings or a string of 'field:dir' parameters
named_entries(sortby) ==
    IF sortby.t = "list"
       /\ \A i \in 1..Len(sortby.l) :
             /\ sortby.l[i].t = "list" /\ Len(sortby.l[i].l) = 2
             /\ sortby.l[i].l[1].t = "str" /\ sortby.l[i].l[2].t = "str"
    THEN [i \in 1..Len(sortby.l) |-> <<sortby.l[i].l[1].s, sortby.l[i].l[2].s>>]
    ELSE IF sortby.t = "str"
            /\ \A i \in 1..Len(split(sortby.s, ",")) : contains_char(split(sortby.s, ",")[i], ":")
    THEN [i \in 1..Len(split(sortby.s, ",")) |-> split1(split(sortby.s, ",")[i], ":")]
    ELSE <<>>

\* C19: a supplied (non-empty) sort spec is never dropped: build orders the
\* query by it or fails; entries with resolvable fields and a direction that
\* is neither asc nor desc fail with InvalidSortDirection
C19_SortNeverDropped ==
    (call.op = "build" /\ truthy(call.sortby))
    => /\ call.out.ok => call.out.v.order_by # <<>>
       /\ ( /\ attach_criteria(Select(Model), call.criteria).ok
            /\ named_entries(call.sortby) # <<>>
            /\ \A i \in 1..Len(named_entries(call.sortby)) :
                  get_column_by_path(JStr(named_entries(call.sortby)[i][1])).ok
            /\ \E i \in 1..Len(named_entries(call.sortby)) :
                  named_entries(call.sortby)[i][2] \notin {W_asc, W_desc} )
          => (~call.out.ok /\ call.out.kind = "InvalidSortDirection")

invalid_request ==
    \/ req.criteria.t # "null" /\ ~parse_criteria(req.criteria).ok
    \/ req.sortby # JStr(W_empty) /\ ~order_by_items(req.sortby).ok

\* C28: with an invalid criteria or sort spec, filter_data, count_filtered and
\* paginate (and their async twins) fail before a statement is executed:
\* neither the count statement nor the data statement is issued
C28_InvalidFailsBeforeQuery ==
    \A r \in Repos :
        (inv[r].pc # "idle" /\ inv[r].variant = r /\ invalid_request)
        => inv[r].pc = "done" /\ ~inv[r].out.ok /\ inv[r].issued = <<>>

\* C29: criteria on a relation path ('owner.email') select an entity row when
\* the related row it owns satisfies the condition and only then: every item
\* satisfies the condition on its own owner, no entity row is returned twice,
\* and total counts every matching entity row once
C29_RelationFilter ==
    \A r \in Repos :
        ( /\ Paged(r) /\ req.limit = MaxLimit /\ req.skip = 0
          /\ req.criteria = Leaf(W_owner \o Dot \o W_email, JStr(W_ax)) )
        => /\ \A k \in 1..Len(inv[r].out.v.data) :
                 holds(parse_criteria(req.criteria).v, owned(inv[r].out.v.data[k]))
           /\ \A j, k \in 1..Len(inv[r].out.v.data) :
                 j # k => inv[r].out.v.data[j] # inv[r].out.v.data[k]
           /\ inv[r].out.v.metas.total = Len(Matching(req.criteria, table))

\* C27: on a column of any type, boolean and numeric included, `in` and
\* `not_in` with a sequence value return the membership predicate over the
\* elements of that sequence: the coercion of the value does not put a
\* non-sequence in its place before the operator looks at it
C27_MembershipOnEveryType ==
    ( /\ call.op = "apply"
      /\ call.operator.t = "str"
      /\ lower(call.operator.s) \in {W_in, W_not_in}
      /\ call.value.t = "list" )
    => /\ call.out.ok
       /\ call.out.v = In(call.column, call.value.l, lower(call.operator.s) = W_not_in)

\* what the second statement of a paginate running alone adds to its first
alone_after(i, orders) == IF i.pc = "done" THEN i ELSE paginate_data(i, orders)

\* the invocation of the requested method on repository r, run from its
\* first step to its last with nothing else running, on the table as it is
alone(r) ==
    IF req.op = "filter_data" THEN filter_data(r, r, table)
    ELSE IF req.op = "count_filtered" THEN count_filtered(r, r, table)
    ELSE alone_after(paginate_count(r, r, table), table)

C26_EitherSessionCompletes ==
    \A r \in Repos :
        inv[r].pc = "done"
        => /\ inv[r].out # Throw("RuntimeError")
           /\ inv[r].issued # <<>> => inv[r].variant = r

(***************************************************************************)
(* Properties of paginate on any window and a failing backend              *)
(* (specification SpecBackend)                                             *)
(***************************************************************************)
\* C21: whatever integers skip and limit are, a Page that paginate returns
\* has total >= 0, current_page >= 1 and total_pages >= 0
C21_PageBounds ==
    \A r \in Repos :
        Paged(r)
        => /\ inv[r].out.v.metas.total >= 0
           /\ inv[r].out.v.metas.current_page >= 1
           /\ inv[r].out.v.metas.total_pages >= 0

\* C22: an error of the backend leaves paginate as it was raised and nothing
\* is tried again: when the count statement raises, paginate raises that error
\* and the data statement is never issued; when the data statement raises,
\* paginate raises that error and returns no Page; no statement is issued
\* twice in one call (with limit = 0 the page arithmetic raises after both
\* statements have completed)
C22_FailurePropagates ==
    \A r \in Repos :
        /\ inv[r].issued \in {<<>>, <<"count">>, <<"count", "data">>}
        /\ (inv[r].pc = "done" /\ inv[r].issued = <<"count">>)
           => inv[r].out = Throw("OperationalError") /\ inv[r].total = -1
        /\ (inv[r].pc = "done" /\ inv[r].issued = <<"count", "data">>
                /\ ~inv[r].out.ok)
           => \/ inv[r].out = Throw("OperationalError")
              \/ req.limit = 0 /\ inv[r].out = Throw("ZeroDivisionError")

C22_Witness ==
    /\ inv["sync"].pc = "done" /\ inv["sync"].issued = <<"count">>
    /\ inv["sync"].out = Throw("OperationalError")
    /\ inv["async"].pc = "done" /\ inv["async"].issued = <<"count", "data">>
    /\ inv["async"].out = Throw("OperationalError")

\* C23: in every execution of paginate and paginate_async the count statement
\* is issued and has completed before the data statement is issued, a Page is
\* returned only after both have completed, and a call that returns a Page
\* has issued one count statement and one data statement
C23_CountThenData ==
    \A r \in Repos :
        /\ inv[r].pc = "counted"
           => inv[r].issued = <<"count">> /\ inv[r].total # -1
        /\ (\E k \in 1..Len(inv[r].issued) : inv[r].issued[k] = "data")
           => inv[r].issued = <<"count", "data">> /\ inv[r].total # -1
        /\ (inv[r].pc = "done" /\ inv[r].out.ok)
           => inv[r].issued = <<"count", "data">>

C23_Witness ==
    \A r \in Repos : Paged(r) /\ inv[r].issued = <<"count", "data">>

(***************************************************************************)
(* Properties of the paginator beside other sessions (specification Spec)  *)
(***************************************************************************)
\* C24: when another session inserts or deletes rows between the two
\* statements of a paginate, the call still returns a Page: its total is the
\* number of rows that matched when the count statement ran, its items are
\* the rows of the page as the table is when the data statement runs, and
\* the count statement is not run again
C24_TotalBeforeItemsAfter ==
    [][\A r \in Repos :
          /\ (inv[r].pc = "idle" /\ inv'[r].pc = "counted" /\ Meaningful(req.criteria))
             => inv'[r].total = Len(Matching(req.criteria, table))
          /\ (inv[r].pc = "counted" /\ inv'[r].pc = "done" /\ req.limit > 0)
             => /\ inv'[r].out.ok
                /\ inv'[r].issued = <<"count", "data">>
                /\ inv'[r].out.v.metas.total = inv[r].total
                /\ (Meaningful(req.criteria)
                    => inv'[r].out.v.data = ExpectedItems(r, table))]_vars

(***************************************************************************)
(* Properties of the multi-database manager (specification SpecManager)    *)
(***************************************************************************)
\* C30: after any sequence of add_database, connect and disconnect calls,
\* whenever the manager reports itself initialized every registered database
\* has had its tables created, has passed a health check and is marked
\* connected; the primary name is unset exactly while no database is
\* registered, and otherwise names a registered database
C30_ManagerInvariant ==
    /\ dbm.initialized
       => \A i \in 1..Len(dbm.databases) :
              /\ dbm.databases[i].tables
              /\ dbm.databases[i].healthy
              /\ dbm.databases[i].connected
    /\ (dbm.primary = JNull) <=> (dbm.databases = <<>>)
    /\ dbm.primary # JNull => registered(dbm, dbm.primary.s)

====
